---- MODULE Spec2Model ----
(***************************************************************************)
(* The session connection of the cTrader FIX client                        *)
(* (src/pkg/ctrader/client.go): the Client's fields, the caller-facing     *)
(* operations Connect, Disconnect, Send and ChangeMessageSequenceNumber,   *)
(* the reader goroutine readMessages with handleDisconnection, the         *)
(* lifecycle callbacks, the counterparty and the channel consumers.        *)
(*                                                                         *)
(* Locking.  Connect, Disconnect, ChangeMessageSequenceNumber and          *)
(* handleDisconnection hold c.mu.Lock() from entry to return, so each is   *)
(* one atomic action that is enabled only while nobody holds the read      *)
(* lock.  Send holds only c.mu.RLock(): several Sends run at once, and     *)
(* its accesses to messageSequenceNum are separate steps (load, store,     *)
(* re-read while building, socket write).  readMessages holds no lock.     *)
(*                                                                         *)
(* Inbound data is modelled here at the granularity of complete messages:  *)
(* a socket read returns one or more whole messages.  A lifecycle callback *)
(* is counted when its goroutine is started (go c.onConnected(), go        *)
(* c.onDisconnected(err)); the callback bodies are the caller's code.      *)
(***************************************************************************)
EXTENDS Integers, Sequences, FiniteSets, TLC

\* Bounds of the model.
MaxConnects == 2        \* sockets the client may open (successful dials)
MaxSends == 2           \* Send calls that pass the connected check between two resets
MaxInbound == 2         \* messages the counterparty sends in total
MaxParts == 3           \* delimited parts of a received text made of loose parts
MaxStreamed == 2        \* messages the counterparty writes onto the byte stream
MaxCalls == 2           \* operations called in total while the lock is followed

\* Program constants.
MessageChanCap == 100   \* make(chan *ResponseMessage, 100)
ErrorChanCap == 10      \* make(chan error, 10)

Sockets == 1..MaxConnects
NoConn == 0
Senders == {"main", "aux"}
\* The message types Send's type switch accepts.
KnownVariants ==
    {"LogonRequest", "Heartbeat", "TestRequest", "LogoutRequest", "OrderMsg",
     "OrderCancelRequest", "MarketDataRequest", "SecurityListRequest",
     "RequestForPositions"}
\* The arguments the callers pass to Send: a known variant and a value of
\* another type.
SendInputs == {"Heartbeat", "other"}
\* The arguments the caller passes to ChangeMessageSequenceNumber.
SeqInputs == {0, 2}
Callbacks == {"onConnected", "onDisconnected", "onMessage"}

VARIABLES
    registered,          \* the callbacks set before Connect (Set*Callback)
    twoSenders,          \* whether a second goroutine calls Send
    conn,                \* c.conn: the socket in use, NoConn = nil
    isConnected,         \* c.isConnected
    messageSequenceNum,  \* c.messageSequenceNum
    ctxDone,             \* c.ctx is cancelled (c.cancel() was called)
    messageChan,         \* c.messageChan: buffered channel, as a sequence
    errorChan,           \* c.errorChan: buffered channel, as a sequence
    sockState,           \* per socket: "unopened", "open", "closed" (by the client)
    peerClosed,          \* sockets whose stream the counterparty closed
    inbound,             \* per socket: messages sent by the peer, not yet read
    nInbound,            \* messages the counterparty has sent in total
    pc,                  \* per sender: its place inside Send
    tmp,                 \* per sender: the value loaded by messageSequenceNum++
    arg,                 \* per sender: the argument of the Send in progress
    built,               \* per sender: MsgSeqNum of the message it built
    result,              \* what the last call of an operation returned
    rpc,                 \* per reader goroutine: its place in readMessages
    rsock,               \* per reader: the socket its Read was called on
    messageBuffer,       \* per reader: complete messages read, not yet framed
    cbSpawned,           \* per lifecycle callback: goroutines started to invoke it
    wire,                \* MsgSeqNum of the messages written since the last reset
    base,                \* the counter's value right after the last reset
    passed,              \* Sends that passed the connected check since then
    clean,               \* no Send has failed since the last reset
    decoded,             \* inbound messages the reader has decoded
    offered,             \* inbound messages pushed onto messageChan
    onMessageCalls,      \* inbound messages the message callback was called with
    framed,              \* the messages the framing loop extracted, in order
    received,            \* the messages a consumer received from Messages(), in order
    request,             \* the request message value handed to the builder
    messageString,       \* the text GetMessage returned for it, as bytes
    tamper,              \* what was done to a received text before it is examined
    validation,          \* what ValidateMessage returned for messageString
    response,            \* what NewResponseMessage made of messageString
    sent,                \* the messages the counterparty wrote, as bytes, in order
    stream,              \* the bytes written by the counterparty and not yet read
    byteBuffer,          \* readMessages' messageBuffer, byte by byte
    extracted,           \* the messages the framing loop cut out of byteBuffer, in order
    mu,                  \* c.mu: the goroutine holding the write lock, those holding the read lock
    gpc,                 \* per goroutine: its place in the operation it called
    gop,                 \* per goroutine: the operation it called last
    calls,               \* operations called so far while the lock is followed
    clientDelimiter,     \* c.delimiter, as bytes
    wireBytes            \* the bytes Send hands to conn.Write for messageString

\* The builder's variables; the connection's operations leave them alone.
codec == <<request, messageString, tamper, validation, response>>
\* The byte stream under the framing loop.
framer == <<sent, stream, byteBuffer, extracted>>
\* The lock and the goroutines that take it.
locks == <<mu, gpc, gop, calls>>
\* The client's delimiter and what Send makes of a built text.
outv == <<clientDelimiter, wireBytes>>
config == <<registered, twoSenders, codec, framer, locks, outv>>
fields == <<conn, isConnected, messageSequenceNum, ctxDone>>
chans == <<messageChan, errorChan>>
net == <<sockState, peerClosed, inbound, nInbound>>
sendv == <<pc, tmp, arg, built>>
readv == <<rpc, rsock, messageBuffer>>
seqlog == <<wire, base, passed, clean>>
inlog == <<decoded, offered, onMessageCalls, framed, received>>
vars == <<config, fields, chans, net, sendv, result, readv, cbSpawned, seqlog, inlog>>

\* NewClient (client.go 37-59): not connected, counter 0, empty channels, a
\* live context.
NewClient ==
    /\ conn = NoConn
    /\ isConnected = FALSE
    /\ messageSequenceNum = 0
    /\ ctxDone = FALSE
    /\ messageChan = <<>>
    /\ errorChan = <<>>
    /\ sockState = [s \in Sockets |-> "unopened"]
    /\ peerClosed = {}
    /\ inbound = [s \in Sockets |-> <<>>]
    /\ nInbound = 0
    /\ pc = [t \in Senders |-> "idle"]
    /\ tmp = [t \in Senders |-> 0]
    /\ arg = [t \in Senders |-> "none"]
    /\ built = [t \in Senders |-> 0]
    /\ result = "none"
    /\ rpc = [r \in Sockets |-> "idle"]
    /\ rsock = [r \in Sockets |-> NoConn]
    /\ messageBuffer = [r \in Sockets |-> <<>>]
    /\ cbSpawned = [k \in Callbacks |-> 0]
    /\ wire = <<>>
    /\ base = 0
    /\ passed = 0
    /\ clean = TRUE
    /\ decoded = {}
    /\ offered = {}
    /\ onMessageCalls = {}
    /\ framed = <<>>
    /\ received = <<>>

\* No message value is being built.
Unexamined ==
    /\ tamper = "none"
    /\ validation = "none"
    /\ response = [ok |-> FALSE, fields |-> <<>>]

NoRequest ==
    /\ request = [variant |-> "none"]
    /\ messageString = <<>>
    /\ Unexamined

\* The goroutines while the lock is followed: 0 is the main goroutine; the
\* connection on socket s starts 3s-2 for its connected callback and 3s-1
\* for its reader, and the disconnection of socket s starts 3s for the
\* disconnected callback.
Goroutines == 0..(3 * MaxConnects)
NoHolder == -1

\* The lock is free and no goroutine is inside an operation.
NoCalls ==
    /\ mu = [writer |-> NoHolder, readers |-> {}]
    /\ gpc = [g \in Goroutines |-> IF g = 0 THEN "ready" ELSE "unborn"]
    /\ gop = [g \in Goroutines |-> "none"]
    /\ calls = 0

\* The delimiter NewClient sets (44); nothing is being written.
NoWrite ==
    /\ clientDelimiter = <<1>>
    /\ wireBytes = <<>>

\* No bytes are under way.
NoStream ==
    /\ sent = <<>>
    /\ stream = <<>>
    /\ byteBuffer = <<>>
    /\ extracted = <<>>

\* The send side starts with the three callbacks set, as every example
\* program does before it connects, and with one or two sending goroutines.
Init ==
    /\ registered = Callbacks
    /\ twoSenders \in BOOLEAN
    /\ NewClient
    /\ NoRequest
    /\ NoStream
    /\ NoCalls
    /\ NoWrite

\* The receive side starts with the callbacks set or left nil; nobody sends.
InitRecv ==
    /\ registered \in {{}, Callbacks}
    /\ twoSenders = FALSE
    /\ NewClient
    /\ NoRequest
    /\ NoStream
    /\ NoCalls
    /\ NoWrite

\* The goroutines that call Send.
ActiveSenders == IF twoSenders THEN Senders ELSE {"main"}

\* c.mu.Lock() can be taken: no Send holds the read lock.
LockFree == \A t \in Senders : pc[t] = "idle"

\* if c.onX != nil { go c.onX(...) }: one more goroutine that invokes
\* callback k, when that callback is set.
Spawn(k) ==
    IF k \in registered THEN [cbSpawned EXCEPT ![k] = @ + 1] ELSE cbSpawned

(***************************************************************************)
(* Connect (client.go 73-117), called by the main goroutine.               *)
(***************************************************************************)
\* The socket the next successful dial yields.
NextSocket == Cardinality({s \in Sockets : sockState[s] # "unopened"}) + 1

\* The early return of lines 77-79.
ConnectAlready(t) ==
    /\ result' = "AlreadyConnected"
    /\ UNCHANGED <<config, fields, chans, net, sendv, readv, cbSpawned, seqlog, inlog>>

\* The dial fails (94-97, 100-103).
ConnectDialFailed(t) ==
    /\ result' = "DialFailed"
    /\ UNCHANGED <<config, fields, chans, net, sendv, readv, cbSpawned, seqlog, inlog>>

\* The dial succeeds (106-116).
ConnectOK(t) ==
    /\ NextSocket \in Sockets
    /\ conn' = NextSocket
    /\ sockState' = [sockState EXCEPT ![NextSocket] = "open"]
    /\ isConnected' = TRUE
    /\ messageSequenceNum' = 0
    /\ rpc' = [rpc EXCEPT ![NextSocket] = "select"]
    /\ cbSpawned' = Spawn("onConnected")
    /\ result' = "ok"
    /\ wire' = <<>>
    /\ base' = messageSequenceNum'
    /\ passed' = 0
    /\ clean' = TRUE
    /\ UNCHANGED <<config, ctxDone, chans, peerClosed, inbound, nInbound, sendv,
                   rsock, messageBuffer, inlog>>

\* Connect without the check of lines 77-79 (a mutant of Connect).
ConnectUnchecked(t) ==
    /\ t = "main"
    /\ LockFree
    /\ \/ ConnectDialFailed(t)
       \/ ConnectOK(t)

Connect(t) ==
    /\ t = "main"
    /\ LockFree
    /\ IF isConnected
       THEN ConnectAlready(t)
       ELSE \/ ConnectDialFailed(t)
            \/ ConnectOK(t)

(***************************************************************************)
(* Disconnect (client.go 119-140), called by the main goroutine.           *)
(***************************************************************************)
\* Disconnect that leaves the socket open (a mutant of Disconnect).
DisconnectKeepsSocket(t) ==
    /\ t = "main"
    /\ LockFree
    /\ result' = "ok"
    /\ IF ~isConnected
       THEN UNCHANGED <<fields, cbSpawned>>
       ELSE /\ ctxDone' = TRUE
            /\ isConnected' = FALSE
            /\ cbSpawned' = Spawn("onDisconnected")
            /\ UNCHANGED <<conn, messageSequenceNum>>
    /\ UNCHANGED <<config, chans, net, sendv, readv, seqlog, inlog>>

\* Disconnect without the check of lines 123-125 (a mutant of Disconnect).
DisconnectUnchecked(t) ==
    /\ t = "main"
    /\ LockFree
    /\ result' = "ok"
    /\ ctxDone' = TRUE
    /\ sockState' = IF conn # NoConn
                    THEN [sockState EXCEPT ![conn] = "closed"]
                    ELSE sockState
    /\ isConnected' = FALSE
    /\ cbSpawned' = Spawn("onDisconnected")
    /\ UNCHANGED <<conn, messageSequenceNum>>
    /\ UNCHANGED <<config, chans, peerClosed, inbound, nInbound, sendv, readv,
                   seqlog, inlog>>

\* Disconnect that does not wait for the lock (a mutant of Disconnect).
DisconnectUnlocked(t) ==
    /\ t = "main"
    /\ result' = "ok"
    /\ IF ~isConnected
       THEN UNCHANGED <<fields, sockState, cbSpawned>>
       ELSE /\ ctxDone' = TRUE
            /\ sockState' = IF conn # NoConn
                            THEN [sockState EXCEPT ![conn] = "closed"]
                            ELSE sockState
            /\ isConnected' = FALSE
            /\ cbSpawned' = Spawn("onDisconnected")
            /\ UNCHANGED <<conn, messageSequenceNum>>
    /\ UNCHANGED <<config, chans, peerClosed, inbound, nInbound, sendv, readv,
                   seqlog, inlog>>

Disconnect(t) ==
    /\ t = "main"
    /\ LockFree
    /\ result' = "ok"
    /\ IF ~isConnected
       THEN UNCHANGED <<fields, sockState, cbSpawned>>
       ELSE /\ ctxDone' = TRUE
            /\ sockState' = IF conn # NoConn
                            THEN [sockState EXCEPT ![conn] = "closed"]
                            ELSE sockState
            /\ isConnected' = FALSE
            /\ cbSpawned' = Spawn("onDisconnected")
            /\ UNCHANGED <<conn, messageSequenceNum>>
    /\ UNCHANGED <<config, chans, peerClosed, inbound, nInbound, sendv, readv,
                   seqlog, inlog>>

(***************************************************************************)
(* ChangeMessageSequenceNumber (client.go 292-296).                        *)
(***************************************************************************)
ChangeMessageSequenceNumber(t, newSeqNum) ==
    /\ t = "main"
    /\ LockFree
    /\ messageSequenceNum' = newSeqNum
    /\ wire' = <<>>
    /\ base' = messageSequenceNum'
    /\ passed' = 0
    /\ clean' = TRUE
    /\ UNCHANGED <<config, conn, isConnected, ctxDone, chans, net, sendv, result,
                   readv, cbSpawned, inlog>>

(***************************************************************************)
(* Send (client.go 148-192), under the read lock only.                     *)
(***************************************************************************)
\* What conn.Write may return on socket s: a socket the client closed
\* fails, a stream the peer closed may still accept the bytes or fail.
WriteOutcomes(s) ==
    IF sockState[s] # "open" THEN {FALSE}
    ELSE IF s \in peerClosed THEN {TRUE, FALSE}
    ELSE {TRUE}

\* Send with the increment moved before the connected check (a mutant of
\* SendBegin).
SendBeginCountsFirst(t, message) ==
    /\ t \in ActiveSenders
    /\ pc[t] = "idle"
    /\ IF ~isConnected
       THEN /\ result' = "NotConnected"
            /\ messageSequenceNum' = messageSequenceNum + 1
            /\ UNCHANGED <<sendv, seqlog>>
       ELSE /\ passed < MaxSends
            /\ pc' = [pc EXCEPT ![t] = "store"]
            /\ tmp' = [tmp EXCEPT ![t] = messageSequenceNum]
            /\ arg' = [arg EXCEPT ![t] = message]
            /\ passed' = passed + 1
            /\ UNCHANGED <<built, result, wire, base, clean, messageSequenceNum>>
    /\ UNCHANGED <<config, conn, isConnected, ctxDone, chans, net, readv,
                   cbSpawned, inlog>>

\* RLock, the connected check (152-154) and the load of
\* c.messageSequenceNum++ (156).
SendBegin(t, message) ==
    /\ t \in ActiveSenders
    /\ pc[t] = "idle"
    /\ IF ~isConnected
       THEN /\ result' = "NotConnected"
            /\ UNCHANGED <<sendv, seqlog>>
       ELSE /\ passed < MaxSends
            /\ pc' = [pc EXCEPT ![t] = "store"]
            /\ tmp' = [tmp EXCEPT ![t] = messageSequenceNum]
            /\ arg' = [arg EXCEPT ![t] = message]
            /\ passed' = passed + 1
            /\ UNCHANGED <<built, result, wire, base, clean>>
    /\ UNCHANGED <<config, fields, chans, net, readv, cbSpawned, inlog>>

\* The store of c.messageSequenceNum++ (156).
SendStore(t) ==
    /\ pc[t] = "store"
    /\ messageSequenceNum' = tmp[t] + 1
    /\ pc' = [pc EXCEPT ![t] = "build"]
    /\ UNCHANGED <<config, conn, isConnected, ctxDone, chans, net, tmp, arg, built,
                   result, readv, cbSpawned, seqlog, inlog>>

\* The type switch building the message with the value the increment
\* loaded, that is the counter before the increment (a mutant of SendBuild).
SendBuildStale(t) ==
    /\ pc[t] = "build"
    /\ IF arg[t] \in KnownVariants
       THEN /\ built' = [built EXCEPT ![t] = tmp[t]]
            /\ pc' = [pc EXCEPT ![t] = "write"]
            /\ UNCHANGED <<tmp, arg, result, clean>>
       ELSE /\ result' = "Unsupported"
            /\ pc' = [pc EXCEPT ![t] = "idle"]
            /\ tmp' = [tmp EXCEPT ![t] = 0]
            /\ arg' = [arg EXCEPT ![t] = "none"]
            /\ clean' = FALSE
            /\ UNCHANGED built
    /\ UNCHANGED <<config, fields, chans, net, readv, cbSpawned, wire, base, passed,
                   inlog>>

\* The type switch (159-180): a known variant is built with the counter's
\* current value, anything else returns the unsupported-type error.
SendBuild(t) ==
    /\ pc[t] = "build"
    /\ IF arg[t] \in KnownVariants
       THEN /\ built' = [built EXCEPT ![t] = messageSequenceNum]
            /\ pc' = [pc EXCEPT ![t] = "write"]
            /\ UNCHANGED <<tmp, arg, result, clean>>
       ELSE /\ result' = "Unsupported"
            /\ pc' = [pc EXCEPT ![t] = "idle"]
            /\ tmp' = [tmp EXCEPT ![t] = 0]
            /\ arg' = [arg EXCEPT ![t] = "none"]
            /\ clean' = FALSE
            /\ UNCHANGED built
    /\ UNCHANGED <<config, fields, chans, net, readv, cbSpawned, wire, base, passed,
                   inlog>>

\* c.conn.Write (186-191) and the return.
SendWrite(t) ==
    /\ pc[t] = "write"
    /\ \E ok \in WriteOutcomes(conn) :
          /\ result' = IF ok THEN "ok" ELSE "WriteFailed"
          /\ wire' = IF ok THEN Append(wire, built[t]) ELSE wire
          /\ clean' = (clean /\ ok)
    /\ pc' = [pc EXCEPT ![t] = "idle"]
    /\ tmp' = [tmp EXCEPT ![t] = 0]
    /\ arg' = [arg EXCEPT ![t] = "none"]
    /\ built' = [built EXCEPT ![t] = 0]
    /\ UNCHANGED <<config, fields, chans, net, readv, cbSpawned, base, passed, inlog>>

(***************************************************************************)
(* readMessages (client.go 194-241): one goroutine per successful Connect, *)
(* named after the socket that Connect opened.                             *)
(***************************************************************************)
\* The outer select (205-208): return when the context is cancelled,
\* otherwise go on to the read.
ReaderSelect(r) ==
    /\ rpc[r] = "select"
    /\ rpc' = [rpc EXCEPT ![r] = IF ctxDone THEN "done" ELSE "call"]
    /\ UNCHANGED <<config, fields, chans, net, sendv, result, rsock,
                   messageBuffer, cbSpawned, seqlog, inlog>>

\* c.conn.Read is called (209): the receiver is the socket c.conn names at
\* this moment.
ReaderCall(r) ==
    /\ rpc[r] = "call"
    /\ conn # NoConn
    /\ rsock' = [rsock EXCEPT ![r] = conn]
    /\ rpc' = [rpc EXCEPT ![r] = "read"]
    /\ UNCHANGED <<config, fields, chans, net, sendv, result, messageBuffer,
                   cbSpawned, seqlog, inlog>>

\* The read returns (209-216): an error on a socket the client closed or on
\* a stream the peer closed and that is drained; otherwise, once bytes are
\* there, one or more of the pending messages, appended to messageBuffer.
ReaderRead(r) ==
    /\ rpc[r] = "read"
    /\ LET s == rsock[r] IN
       IF sockState[s] = "closed" \/ (inbound[s] = <<>> /\ s \in peerClosed)
       THEN /\ rpc' = [rpc EXCEPT ![r] = "report"]
            /\ UNCHANGED <<messageBuffer, inbound>>
       ELSE /\ inbound[s] # <<>>
            /\ \E n \in 1..Len(inbound[s]) :
                  /\ messageBuffer' = [messageBuffer EXCEPT
                         ![r] = @ \o SubSeq(inbound[s], 1, n)]
                  /\ inbound' = [inbound EXCEPT
                         ![s] = SubSeq(@, n + 1, Len(@))]
            /\ rpc' = [rpc EXCEPT ![r] = "frame"]
    /\ UNCHANGED <<config, fields, chans, sockState, peerClosed, nInbound, sendv,
                   result, rsock, cbSpawned, seqlog, inlog>>

\* The inner select sending whether or not the channel has room (a mutant
\* of DeliverCases).
DeliverCasesUnbounded ==
    {"send"} \cup (IF ctxDone THEN {"cancelled"} ELSE {})

\* The cases of the inner select (232-237) that can proceed: the channel
\* send when the channel has room, the cancellation when the context is
\* done; with neither, the default case.
DeliverCases ==
    LET ready == (IF Len(messageChan) < MessageChanCap THEN {"send"} ELSE {})
                 \cup (IF ctxDone THEN {"cancelled"} ELSE {})
    IN IF ready = {} THEN {"default"} ELSE ready

\* The framing loop putting the decoded message in front of the messages
\* already queued (a mutant of ReaderFrame).
ReaderFrameLifo(r) ==
    /\ rpc[r] = "frame"
    /\ IF messageBuffer[r] = <<>>
       THEN /\ rpc' = [rpc EXCEPT ![r] = "select"]
            /\ UNCHANGED <<messageBuffer, messageChan, decoded, offered, framed>>
       ELSE LET responseMessage == Head(messageBuffer[r]) IN
            /\ messageBuffer' = [messageBuffer EXCEPT ![r] = Tail(@)]
            /\ decoded' = decoded \cup {responseMessage}
            /\ framed' = Append(framed, responseMessage)
            /\ \E case \in DeliverCases :
                  /\ messageChan' = IF case = "send"
                                    THEN <<responseMessage>> \o messageChan
                                    ELSE messageChan
                  /\ offered' = IF case = "send"
                                THEN offered \cup {responseMessage}
                                ELSE offered
                  /\ rpc' = [rpc EXCEPT ![r] = IF case = "cancelled"
                                               THEN "done" ELSE "frame"]
    /\ UNCHANGED <<config, fields, errorChan, net, sendv, result, rsock, cbSpawned,
                   seqlog, onMessageCalls, received>>

\* One round of the framing loop (219-238): with no complete message left
\* go back to the outer select; otherwise take the first message out of the
\* buffer, decode it and run the inner select.
ReaderFrame(r) ==
    /\ rpc[r] = "frame"
    /\ IF messageBuffer[r] = <<>>
       THEN /\ rpc' = [rpc EXCEPT ![r] = "select"]
            /\ UNCHANGED <<messageBuffer, messageChan, decoded, offered, framed>>
       ELSE LET responseMessage == Head(messageBuffer[r]) IN
            /\ messageBuffer' = [messageBuffer EXCEPT ![r] = Tail(@)]
            /\ decoded' = decoded \cup {responseMessage}
            /\ framed' = Append(framed, responseMessage)
            /\ \E case \in DeliverCases :
                  /\ messageChan' = IF case = "send"
                                    THEN Append(messageChan, responseMessage)
                                    ELSE messageChan
                  /\ offered' = IF case = "send"
                                THEN offered \cup {responseMessage}
                                ELSE offered
                  /\ rpc' = [rpc EXCEPT ![r] = IF case = "cancelled"
                                               THEN "done" ELSE "frame"]
    /\ UNCHANGED <<config, fields, errorChan, net, sendv, result, rsock, cbSpawned,
                   seqlog, onMessageCalls, received>>

\* c.errorChan <- read error (211): a blocking channel send.
ReaderReport(r) ==
    /\ rpc[r] = "report"
    /\ Len(errorChan) < ErrorChanCap
    /\ errorChan' = Append(errorChan, "read error")
    /\ rpc' = [rpc EXCEPT ![r] = "handle"]
    /\ UNCHANGED <<config, fields, messageChan, net, sendv, result, rsock,
                   messageBuffer, cbSpawned, seqlog, inlog>>

\* handleDisconnection dialling a new socket once it has marked the client
\* disconnected (a mutant of handleDisconnection).
handleDisconnectionRedials(r) ==
    /\ rpc[r] = "handle"
    /\ LockFree
    /\ NextSocket \in Sockets
    /\ conn' = NextSocket
    /\ sockState' = [sockState EXCEPT ![NextSocket] = "open"]
    /\ isConnected' = TRUE
    /\ cbSpawned' = Spawn("onDisconnected")
    /\ rpc' = [rpc EXCEPT ![r] = "done", ![NextSocket] = "select"]
    /\ UNCHANGED <<config, messageSequenceNum, ctxDone, chans, peerClosed, inbound,
                   nInbound, sendv, result, rsock, messageBuffer, seqlog, inlog>>

\* handleDisconnection without the check of line 263 (a mutant of
\* handleDisconnection).
handleDisconnectionUnchecked(r) ==
    /\ rpc[r] = "handle"
    /\ LockFree
    /\ isConnected' = FALSE
    /\ cbSpawned' = Spawn("onDisconnected")
    /\ rpc' = [rpc EXCEPT ![r] = "done"]
    /\ UNCHANGED <<config, conn, messageSequenceNum, ctxDone, chans, net, sendv,
                   result, rsock, messageBuffer, seqlog, inlog>>

\* handleDisconnection (259-270) under the write lock, then the return
\* (212-213).
handleDisconnection(r) ==
    /\ rpc[r] = "handle"
    /\ LockFree
    /\ IF isConnected
       THEN /\ isConnected' = FALSE
            /\ cbSpawned' = Spawn("onDisconnected")
       ELSE UNCHANGED <<isConnected, cbSpawned>>
    /\ rpc' = [rpc EXCEPT ![r] = "done"]
    /\ UNCHANGED <<config, conn, messageSequenceNum, ctxDone, chans, net, sendv,
                   result, rsock, messageBuffer, seqlog, inlog>>

readMessages(r) ==
    \/ ReaderSelect(r)
    \/ ReaderCall(r)
    \/ ReaderRead(r)
    \/ ReaderFrame(r)
    \/ ReaderReport(r)
    \/ handleDisconnection(r)

(***************************************************************************)
(* The counterparty: it sends complete messages on an open stream and may  *)
(* close the stream.                                                       *)
(***************************************************************************)
\* The MsgType (tag 35) of the counterparty's m-th message: it alternates
\* TestRequest ("1") and ExecutionReport ("8"); a TestRequest's TestReqID is
\* its number m.  The reader never looks at the type.
InboundMsgType(m) == IF m % 2 = 1 THEN "1" ELSE "8"

PeerSend(s) ==
    /\ sockState[s] = "open"
    /\ s \notin peerClosed
    /\ nInbound < MaxInbound
    /\ nInbound' = nInbound + 1
    /\ inbound' = [inbound EXCEPT ![s] = Append(@, nInbound + 1)]
    /\ UNCHANGED <<config, fields, chans, sockState, peerClosed, sendv, result,
                   readv, cbSpawned, seqlog, inlog>>

PeerClose(s) ==
    /\ sockState[s] = "open"
    /\ s \notin peerClosed
    /\ peerClosed' = peerClosed \cup {s}
    /\ UNCHANGED <<config, fields, chans, sockState, inbound, nInbound, sendv,
                   result, readv, cbSpawned, seqlog, inlog>>

(***************************************************************************)
(* The consumers of Messages() and Errors() (client.go 284-290).           *)
(***************************************************************************)
ConsumeMessage ==
    /\ messageChan # <<>>
    /\ messageChan' = Tail(messageChan)
    /\ received' = Append(received, Head(messageChan))
    /\ UNCHANGED <<config, fields, errorChan, net, sendv, result, readv, cbSpawned,
                   seqlog, decoded, offered, onMessageCalls, framed>>

ConsumeError ==
    /\ errorChan # <<>>
    /\ errorChan' = Tail(errorChan)
    /\ UNCHANGED <<config, fields, messageChan, net, sendv, result, readv, cbSpawned,
                   seqlog, inlog>>

(***************************************************************************)
(* The send side: the caller's operations, a second sending goroutine,     *)
(* the reader on streams that carry no inbound message (so its framing     *)
(* loop is never entered), and a counterparty that may close the stream.   *)
(***************************************************************************)
Next ==
    \/ Connect("main")
    \/ Disconnect("main")
    \/ \E n \in SeqInputs : ChangeMessageSequenceNumber("main", n)
    \/ \E t \in Senders : \E message \in SendInputs : SendBegin(t, message)
    \/ \E t \in Senders : SendStore(t)
    \/ \E t \in Senders : SendBuild(t)
    \/ \E t \in Senders : SendWrite(t)
    \/ \E r \in Sockets : ReaderSelect(r)
    \/ \E r \in Sockets : ReaderCall(r)
    \/ \E r \in Sockets : ReaderRead(r)
    \/ \E r \in Sockets : ReaderReport(r)
    \/ \E r \in Sockets : handleDisconnection(r)
    \/ \E s \in Sockets : PeerClose(s)

Spec == Init /\ [][Next]_vars

(***************************************************************************)
(* The receive side: the caller connects and disconnects, the counterparty *)
(* sends messages and may close the stream, the reader frames and delivers *)
(* them, and the consumers drain the channels.                             *)
(***************************************************************************)
NextRecv ==
    \/ Connect("main")
    \/ Disconnect("main")
    \/ \E r \in Sockets : readMessages(r)
    \/ \E s \in Sockets : PeerSend(s)
    \/ \E s \in Sockets : PeerClose(s)
    \/ ConsumeMessage
    \/ ConsumeError

SpecRecv == InitRecv /\ [][NextRecv]_vars

\* The receive side under the scheduling the Go runtime gives: a reader
\* goroutine that can take a step eventually takes it.
FairSpecRecv == SpecRecv /\ \A r \in Sockets : WF_vars(readMessages(r))

(***************************************************************************)
(* Undrained channels.  The client after earlier sessions that were each   *)
(* lost to a read failure while nobody received from Messages() or         *)
(* Errors(): every lost session left one error on errorChan and started    *)
(* both lifecycle callbacks, the messages of those sessions are still on   *)
(* messageChan (written 0 here), no Disconnect was called, so the context  *)
(* is live, and socket 1, the socket of the last of those sessions, was    *)
(* never closed by the client.  The channels start one short of their      *)
(* capacity or full.  The caller goes on connecting and disconnecting, the *)
(* counterparty sends and closes, and still nobody drains the channels.    *)
(***************************************************************************)
InitFull ==
    /\ registered \in {{}, Callbacks}
    /\ twoSenders = FALSE
    /\ conn = 1
    /\ isConnected = FALSE
    /\ messageSequenceNum = 0
    /\ ctxDone = FALSE
    /\ \E kept \in {MessageChanCap - 1, MessageChanCap} :
          messageChan = [i \in 1..kept |-> 0]
    /\ \E lost \in {ErrorChanCap - 1, ErrorChanCap} :
          /\ errorChan = [i \in 1..lost |-> "read error"]
          /\ cbSpawned = [k \in Callbacks |->
                             IF k \in registered /\ k # "onMessage" THEN lost ELSE 0]
    /\ sockState = [s \in Sockets |-> IF s = 1 THEN "open" ELSE "unopened"]
    /\ peerClosed = {1}
    /\ inbound = [s \in Sockets |-> <<>>]
    /\ nInbound = 0
    /\ pc = [t \in Senders |-> "idle"]
    /\ tmp = [t \in Senders |-> 0]
    /\ arg = [t \in Senders |-> "none"]
    /\ built = [t \in Senders |-> 0]
    /\ result = "ok"
    /\ rpc = [r \in Sockets |-> IF r = 1 THEN "done" ELSE "idle"]
    /\ rsock = [r \in Sockets |-> IF r = 1 THEN 1 ELSE NoConn]
    /\ messageBuffer = [r \in Sockets |-> <<>>]
    /\ wire = <<>>
    /\ base = 0
    /\ passed = 0
    /\ clean = TRUE
    /\ decoded = {0}
    /\ offered = {0}
    /\ onMessageCalls = {}
    /\ framed = messageChan
    /\ received = <<>>
    /\ NoRequest
    /\ NoStream
    /\ NoCalls
    /\ NoWrite

NextFull ==
    \/ Connect("main")
    \/ Disconnect("main")
    \/ \E r \in Sockets : readMessages(r)
    \/ \E s \in Sockets : PeerSend(s)
    \/ \E s \in Sockets : PeerClose(s)

SpecFull == InitFull /\ [][NextFull]_vars

FairSpecFull == SpecFull /\ \A r \in Sockets : WF_vars(readMessages(r))

(***************************************************************************)
(* The message builder (messages.go, src/unnamed/part_000 354-740).  A     *)
(* text is the sequence of its bytes.  A request is a message value of one *)
(* of the nine variants, the Config it was made with, the sequence number  *)
(* passed to GetMessage and the instant time.Now() returns during the      *)
(* call.  Amounts are counted in their last printed decimal place, so      *)
(* %.2f and %.5f print them exactly.                                       *)
(***************************************************************************)
SOH == 1
EqualsSign == 61

\* fmt.Sprintf("%d", n).
RECURSIVE Itoa(_)
Itoa(n) ==
    IF n < 0 THEN <<45>> \o Itoa(-n)
    ELSE IF n < 10 THEN <<48 + n>>
    ELSE Itoa(n \div 10) \o <<48 + (n % 10)>>

\* The digits of n >= 0 padded with zeros on the left to the given width.
ZeroPad(n, width) ==
    LET digits == Itoa(n) IN
    IF Len(digits) >= width THEN digits
    ELSE [i \in 1..(width - Len(digits)) |-> 48] \o digits

\* fmt.Sprintf("%.<places>f", x) for x = units / 10^places, units >= 0.
FormatFixed(units, places) ==
    Itoa(units \div (10 ^ places)) \o <<46>> \o ZeroPad(units % (10 ^ places), places)

\* fmt.Sprintf("<tag>=%s", value).
Field(tag, value) == Itoa(tag) \o <<EqualsSign>> \o value

\* strings.Join(fields, delimiter).
RECURSIVE Join(_, _)
Join(fieldList, delimiter) ==
    IF fieldList = <<>> THEN <<>>
    ELSE IF Len(fieldList) = 1 THEN fieldList[1]
    ELSE fieldList[1] \o delimiter \o Join(Tail(fieldList), delimiter)

\* The sum of the bytes of a text (the loop of getTrailer, 410-412),
\* computed by halves.
RECURSIVE SumBytes(_)
SumBytes(text) ==
    IF text = <<>> THEN 0
    ELSE IF Len(text) = 1 THEN text[1]
    ELSE LET half == Len(text) \div 2 IN
         SumBytes(SubSeq(text, 1, half)) + SumBytes(SubSeq(text, half + 1, Len(text)))

\* The message type each constructor passes to NewRequestMessage.
messageType(variant) ==
    CASE variant = "LogonRequest" -> <<65>>
      [] variant = "Heartbeat" -> <<48>>
      [] variant = "TestRequest" -> <<49>>
      [] variant = "LogoutRequest" -> <<53>>
      [] variant = "OrderMsg" -> <<68>>
      [] variant = "OrderCancelRequest" -> <<70>>
      [] variant = "MarketDataRequest" -> <<86>>
      [] variant = "SecurityListRequest" -> <<120>>
      [] variant = "RequestForPositions" -> <<65, 78>>

\* The fields a condition guards: present when the condition holds.
Optional(present, field) == IF present THEN <<field>> ELSE <<>>

\* GetBody of each variant.
GetBody(rm) ==
    CASE rm.variant = "LogonRequest" ->
            Join(<<Field(98, Itoa(rm.EncryptionScheme)),
                   Field(108, Itoa(rm.config.HeartBeat))>>
                 \o Optional(rm.ResetSeqNum, Field(141, <<89>>))
                 \o <<Field(553, rm.config.Username),
                      Field(554, rm.config.Password)>>, <<SOH>>)
      [] rm.variant = "Heartbeat" ->
            IF rm.TestReqID = <<>> THEN <<>> ELSE Field(112, rm.TestReqID)
      [] rm.variant = "TestRequest" -> Field(112, rm.TestReqID)
      [] rm.variant = "LogoutRequest" -> <<>>
      [] rm.variant = "OrderMsg" ->
            Join(<<Field(11, rm.ClOrdID),
                   Field(55, rm.Symbol),
                   Field(54, rm.Side),
                   Field(60, SubSeq(rm.now, 1, 17)),
                   Field(38, FormatFixed(rm.OrderQty, 2)),
                   Field(40, rm.OrdType)>>
                 \o Optional(rm.Price # 0, Field(44, FormatFixed(rm.Price, 5))),
                 <<SOH>>)
      [] rm.variant = "OrderCancelRequest" ->
            Join(<<Field(41, rm.OrigClOrdID)>>
                 \o Optional(rm.OrderID # <<>>, Field(37, rm.OrderID))
                 \o <<Field(11, rm.ClOrdID)>>, <<SOH>>)
      [] rm.variant = "MarketDataRequest" ->
            Join(<<Field(262, rm.MDReqID),
                   Field(263, rm.SubscriptionRequestType),
                   Field(264, Itoa(rm.MarketDepth)),
                   Field(267, Itoa(rm.NoMDEntryTypes)),
                   Field(269, rm.MDEntryType),
                   Field(146, Itoa(rm.NoRelatedSym)),
                   Field(55, rm.Symbol)>>, <<SOH>>)
      [] rm.variant = "SecurityListRequest" ->
            Join(<<Field(320, rm.SecurityReqID),
                   Field(559, rm.SecurityListRequestType)>>
                 \o Optional(rm.Symbol # <<>>, Field(55, rm.Symbol)), <<SOH>>)
      [] rm.variant = "RequestForPositions" ->
            Join(<<Field(710, rm.PosReqID)>>
                 \o Optional(rm.PosMaintRptID # <<>>, Field(721, rm.PosMaintRptID)),
                 <<SOH>>)

\* getHeader (393-405).
getHeader(rm, lenBody, sequenceNumber) ==
    LET fieldsJoined ==
            Join(<<Field(35, messageType(rm.variant)),
                   Field(49, rm.config.SenderCompID),
                   Field(56, rm.config.TargetCompID),
                   Field(57, rm.config.TargetSubID),
                   Field(50, rm.config.SenderSubID),
                   Field(34, Itoa(sequenceNumber)),
                   Field(52, rm.now)>>, <<SOH>>)
    IN Field(8, rm.config.BeginString) \o <<SOH>>
       \o Field(9, Itoa(lenBody + Len(fieldsJoined) + 2)) \o <<SOH>>
       \o fieldsJoined

\* getTrailer summing all but the last byte of its argument (a mutant of
\* getTrailer).
getTrailerShort(headerAndBody) ==
    Field(10, ZeroPad(SumBytes(SubSeq(headerAndBody, 1, Len(headerAndBody) - 1)) % 256, 3))

\* getTrailer (407-415).
getTrailer(headerAndBody) ==
    Field(10, ZeroPad(SumBytes(headerAndBody) % 256, 3))

\* GetMessage (375-387, and the same text in every variant).
GetMessage(rm, sequenceNumber) ==
    LET body == GetBody(rm)
        headerAndBody ==
            IF body # <<>>
            THEN getHeader(rm, Len(body), sequenceNumber) \o <<SOH>> \o body \o <<SOH>>
            ELSE getHeader(rm, 0, sequenceNumber) \o <<SOH>>
    IN headerAndBody \o getTrailer(headerAndBody) \o <<SOH>>

\* The inputs of the builder.
Texts == {<<>>, <<65>>, <<66, 67>>, <<65, SOH, 66>>}
Configs ==
    [BeginString : {<<70, 73, 88, 46, 52, 46, 52>>},
     SenderCompID : {<<100, 101, 109, 111, 46, 120, 46, 49>>},
     TargetCompID : {<<99, 83, 101, 114, 118, 101, 114>>},
     TargetSubID : {<<81, 85, 79, 84, 69>>},
     SenderSubID : {<<>>, <<81, 85, 79, 84, 69>>},
     Username : {<<49>>},
     Password : {<<112, 119>>},
     HeartBeat : {30}]
\* 20240101-00:00:00.000 and 20241231-23:59:59.999
Instants == {<<50, 48, 50, 52, 48, 49, 48, 49, 45, 48, 48, 58, 48, 48, 58, 48, 48, 46, 48, 48, 48>>,
             <<50, 48, 50, 52, 49, 50, 51, 49, 45, 50, 51, 58, 53, 57, 58, 53, 57, 46, 57, 57, 57>>}
SequenceNumbers == {1, 10}
Calls == [config : Configs, now : Instants, sequenceNumber : SequenceNumbers]
With(call, value) == call @@ value
Requests(c) ==
    UNION {
      {With(c, [variant |-> "LogonRequest", EncryptionScheme |-> 0, ResetSeqNum |-> r]) :
          r \in BOOLEAN},
      {With(c, [variant |-> "Heartbeat", TestReqID |-> t]) : t \in Texts},
      {With(c, [variant |-> "TestRequest", TestReqID |-> t]) : t \in Texts},
      {With(c, [variant |-> "LogoutRequest"])},
      {With(c, [variant |-> "OrderMsg", ClOrdID |-> x[1], Symbol |-> <<49>>,
                Side |-> <<49>>, OrderQty |-> 100000, OrdType |-> x[2],
                Price |-> x[3]]) :
          x \in {<<>>, <<65>>} \X {<<49>>, <<50>>} \X {0, 123456}},
      {With(c, [variant |-> "OrderCancelRequest", OrigClOrdID |-> <<65>>,
                OrderID |-> x[1], ClOrdID |-> x[2]]) :
          x \in {<<>>, <<65>>} \X {<<>>, <<65>>}},
      {With(c, [variant |-> "MarketDataRequest", MDReqID |-> <<65>>,
                SubscriptionRequestType |-> <<49>>, MarketDepth |-> x[1],
                NoMDEntryTypes |-> 1, MDEntryType |-> <<48>>, NoRelatedSym |-> 1,
                Symbol |-> x[2]]) :
          x \in {0, 1} \X {<<>>, <<49>>}},
      {With(c, [variant |-> "SecurityListRequest", SecurityReqID |-> <<65>>,
                SecurityListRequestType |-> <<48>>, Symbol |-> t]) :
          t \in {<<>>, <<49>>}},
      {With(c, [variant |-> "RequestForPositions", PosReqID |-> <<65>>,
                PosMaintRptID |-> t]) : t \in {<<>>, <<65>>}}
    }

\* The delimiters a caller configures: the default, or WithDelimiter("|").
Delimiters == {<<SOH>>, <<124>>}

\* A request is at hand; nothing is connected.
InitCodec ==
    /\ registered = Callbacks
    /\ twoSenders = FALSE
    /\ NewClient
    /\ \E c \in Calls : request \in Requests(c)
    /\ messageString = <<>>
    /\ Unexamined
    /\ NoStream
    /\ NoCalls
    /\ clientDelimiter \in Delimiters
    /\ wireBytes = <<>>

\* message.GetMessage(sequenceNumber) is called.
BuildMessage ==
    /\ request.variant \in KnownVariants
    /\ messageString = <<>>
    /\ validation = "none"
    /\ ~response.ok
    /\ messageString' = GetMessage(request, request.sequenceNumber)
    /\ UNCHANGED <<registered, twoSenders, outv, framer, locks, request, tamper, validation, response,
                   fields, chans, net, sendv, result, readv, cbSpawned, seqlog, inlog>>

(***************************************************************************)
(* Decoding and validation: NewResponseMessage and GetFieldValue           *)
(* (src/unnamed/part_000 308-348) and Protocol.ValidateMessage             *)
(* (src/pkg/ctrader/protocol.go 22-111).  The delimiter is one byte.       *)
(***************************************************************************)
\* strings.Split(text, delimiter), from position from on.
RECURSIVE SplitFrom(_, _, _)
SplitFrom(text, delimiter, from) ==
    LET ends == {i \in from..Len(text) : text[i] = delimiter} IN
    IF ends = {} THEN <<SubSeq(text, from, Len(text))>>
    ELSE LET end == CHOOSE i \in ends : \A j \in ends : i <= j IN
         <<SubSeq(text, from, end - 1)>> \o SplitFrom(text, delimiter, end + 1)

Split(text, delimiter) == SplitFrom(text, delimiter, 1)

\* The position of the last '=', 0 for none (a mutant of IndexEquals).
LastIndexEquals(part) ==
    LET at == {i \in 1..Len(part) : part[i] = EqualsSign} IN
    IF at = {} THEN 0 ELSE CHOOSE i \in at : \A j \in at : j <= i

\* strings.Index(part, "="): the position of the first '=', 0 for none.
IndexEquals(part) ==
    LET at == {i \in 1..Len(part) : part[i] = EqualsSign} IN
    IF at = {} THEN 0 ELSE CHOOSE i \in at : \A j \in at : i <= j

\* The number a non-empty text of decimal digits denotes.
RECURSIVE DigitsValue(_)
DigitsValue(digits) ==
    IF Len(digits) = 1 THEN digits[1] - 48
    ELSE 10 * DigitsValue(SubSeq(digits, 1, Len(digits) - 1)) + (digits[Len(digits)] - 48)

\* strconv.Atoi: an optional sign and one or more decimal digits.
Atoi(text) ==
    LET signed == text # <<>> /\ text[1] \in {43, 45}
        digits == IF signed THEN Tail(text) ELSE text
    IN IF digits # <<>> /\ \A i \in 1..Len(digits) : digits[i] \in 48..57
       THEN [ok |-> TRUE,
             value |-> IF signed /\ text[1] = 45
                       THEN 0 - DigitsValue(digits) ELSE DigitsValue(digits)]
       ELSE [ok |-> FALSE, value |-> 0]

\* The loop of parseFields (protocol.go 55-69) and of NewResponseMessage
\* (part_000 312-324): every part that is not empty, holds an '=' and has
\* an integer to the left of its first '=' appends what follows that '='
\* to the values of that integer.
parseFields(text, delimiter) ==
    LET parts == Split(text, delimiter)
        fieldNum(k) == Atoi(SubSeq(parts[k], 1, IndexEquals(parts[k]) - 1))
        kept == {k \in 1..Len(parts) :
                    /\ parts[k] # <<>>
                    /\ IndexEquals(parts[k]) # 0
                    /\ fieldNum(k).ok}
        fieldValue(k) == SubSeq(parts[k], IndexEquals(parts[k]) + 1, Len(parts[k]))
        places(n) == SelectSeq([k \in 1..Len(parts) |-> k],
                               LAMBDA k : k \in kept /\ fieldNum(k).value = n)
    IN [n \in {fieldNum(k).value : k \in kept} |->
           [i \in 1..Len(places(n)) |-> fieldValue(places(n)[i])]]

\* NewResponseMessage splitting processedMessage, the text in which "|"
\* has replaced the delimiter (a mutant of NewResponseMessage).
NewResponseMessageProcessed(text, delimiter) ==
    [ok |-> TRUE,
     fields |-> parseFields([i \in 1..Len(text) |->
                                IF text[i] = delimiter THEN 124 ELSE text[i]],
                            delimiter)]

NewResponseMessage(text, delimiter) ==
    [ok |-> TRUE, fields |-> parseFields(text, delimiter)]

\* GetFieldValue exposing only the first value of a tag (a mutant of
\* GetFieldValue).
GetFieldValueFirst(rm, fieldNumber) ==
    IF fieldNumber \notin DOMAIN rm.fields THEN [kind |-> "nil"]
    ELSE [kind |-> "string", value |-> rm.fields[fieldNumber][1]]

\* GetFieldValue (332-341): nil, the single value, or the list of values.
GetFieldValue(rm, fieldNumber) ==
    IF fieldNumber \notin DOMAIN rm.fields THEN [kind |-> "nil"]
    ELSE IF Len(rm.fields[fieldNumber]) = 1
         THEN [kind |-> "string", value |-> rm.fields[fieldNumber][1]]
         ELSE [kind |-> "list", value |-> rm.fields[fieldNumber]]

\* GetMessageType (343-348).
GetMessageType(rm) ==
    IF 35 \in DOMAIN rm.fields /\ Len(rm.fields[35]) > 0
    THEN rm.fields[35][1] ELSE <<>>

\* calculateChecksum without the reduction modulo 256 (a mutant of
\* calculateChecksum).
calculateChecksumUnreduced(text) == SumBytes(text)

\* calculateChecksum (protocol.go 105-111).
calculateChecksum(text) == SumBytes(text) % 256

\* The positions at which delimiter+"10=" starts in a text.
ChecksumMarks(text, delimiter) ==
    {i \in 1..(Len(text) - 3) :
        SubSeq(text, i, i + 3) = <<delimiter, 49, 48, EqualsSign>>}

\* The comparison of validateChecksum on the last two decimal digits only
\* (a mutant of ChecksumMatches).
ChecksumMatchesLoosely(calculatedChecksum, checksum) ==
    calculatedChecksum % 100 = checksum % 100

\* The comparison of validateChecksum (98).
ChecksumMatches(calculatedChecksum, checksum) ==
    calculatedChecksum = checksum

\* validateChecksum (protocol.go 74-103); "nil" for no error.
validateChecksum(text, delimiter) ==
    LET marks == ChecksumMarks(text, delimiter) IN
    IF marks = {} THEN "checksum field not found"
    ELSE LET checksumIndex == CHOOSE i \in marks : \A j \in marks : j <= i
             checksumStart == checksumIndex + 4
             ends == {i \in checksumStart..Len(text) : text[i] = delimiter}
             checksumEnd == IF ends = {} THEN Len(text) + 1
                            ELSE CHOOSE i \in ends : \A j \in ends : i <= j
             checksum == Atoi(SubSeq(text, checksumStart, checksumEnd - 1))
             messageBody == SubSeq(text, 1, checksumIndex)
         IN IF ~checksum.ok THEN "invalid checksum format"
            ELSE IF ~ChecksumMatches(calculateChecksum(messageBody), checksum.value)
                 THEN "checksum mismatch"
                 ELSE "nil"

\* ValidateMessage examining the checksum before the mandatory fields (a
\* mutant of ValidateMessage).
ValidateMessageChecksumFirst(text, delimiter) ==
    IF text = <<>> THEN "message is empty"
    ELSE LET parsed == parseFields(text, delimiter) IN
         IF validateChecksum(text, delimiter) # "nil"
         THEN "checksum validation failed: " \o validateChecksum(text, delimiter)
         ELSE IF 8 \notin DOMAIN parsed THEN "missing BeginString field (8)"
         ELSE IF 9 \notin DOMAIN parsed THEN "missing BodyLength field (9)"
         ELSE IF 35 \notin DOMAIN parsed THEN "missing MsgType field (35)"
         ELSE IF 10 \notin DOMAIN parsed THEN "missing Checksum field (10)"
         ELSE "nil"

\* ValidateMessage (protocol.go 22-50); "nil" for no error.
ValidateMessage(text, delimiter) ==
    IF text = <<>> THEN "message is empty"
    ELSE LET parsed == parseFields(text, delimiter) IN
         IF 8 \notin DOMAIN parsed THEN "missing BeginString field (8)"
         ELSE IF 9 \notin DOMAIN parsed THEN "missing BodyLength field (9)"
         ELSE IF 35 \notin DOMAIN parsed THEN "missing MsgType field (35)"
         ELSE IF 10 \notin DOMAIN parsed THEN "missing Checksum field (10)"
         ELSE IF validateChecksum(text, delimiter) # "nil"
              THEN "checksum validation failed: " \o validateChecksum(text, delimiter)
              ELSE "nil"

\* protocol.ValidateMessage(messageString) is called.
Validate ==
    /\ validation = "none"
    /\ ~response.ok
    /\ validation' = ValidateMessage(messageString, SOH)
    /\ UNCHANGED <<registered, twoSenders, outv, framer, locks, request, messageString, tamper, response,
                   fields, chans, net, sendv, result, readv, cbSpawned, seqlog, inlog>>

\* NewResponseMessage(messageString, delimiter) is called.
Decode ==
    /\ validation = "none"
    /\ ~response.ok
    /\ response' = NewResponseMessage(messageString, SOH)
    /\ UNCHANGED <<registered, twoSenders, outv, framer, locks, request, messageString, tamper, validation,
                   fields, chans, net, sendv, result, readv, cbSpawned, seqlog, inlog>>

\* The builder: a message value is built, and the text is validated or
\* decoded.
\* strings.HasSuffix(text, suffix).
HasSuffix(text, suffix) ==
    /\ Len(text) >= Len(suffix)
    /\ SubSeq(text, Len(text) - Len(suffix) + 1, Len(text)) = suffix

\* What Send writes for a built text (182-186): the client's delimiter is
\* appended unless the text ends with it.
SendBytes(text, suffix) ==
    IF HasSuffix(text, suffix) THEN text ELSE text \o suffix

\* Send goes on from the type switch to conn.Write with the text built.
WriteMessage ==
    /\ messageString # <<>>
    /\ wireBytes = <<>>
    /\ tamper = "none"
    /\ wireBytes' = SendBytes(messageString, clientDelimiter)
    /\ UNCHANGED <<registered, twoSenders, framer, locks, codec, clientDelimiter,
                   fields, chans, net, sendv, result, readv, cbSpawned, seqlog, inlog>>

NextCodec ==
    \/ BuildMessage
    \/ Validate
    \/ Decode
    \/ WriteMessage

SpecCodec == InitCodec /\ [][NextCodec]_vars

(***************************************************************************)
(* Received texts.  A text reaches the decoder or the validator either as  *)
(* a counterparty built it (by the same builder), possibly damaged on the  *)
(* way: one digit of its checksum replaced, or some of the fields 8, 9, 35 *)
(* and 10 removed; or as a run of loose parts, each followed by the        *)
(* delimiter: fields, among them a repeated tag and a value holding '=',   *)
(* an empty part, a part without '=' and a part whose tag is no integer.   *)
(***************************************************************************)
LooseParts ==
    {Field(269, <<48>>), Field(269, <<49>>), Field(270, <<53>>),
     Field(58, <<97, EqualsSign, 98>>), <<>>, <<97, 98>>, <<120, EqualsSign, 49>>,
     <<EqualsSign, 53>>, <<45, 53, EqualsSign, 120>>}

\* The runs of up to MaxParts loose parts; the run of none is the empty text.
PartRuns == UNION {[1..n -> LooseParts] : n \in 0..MaxParts}

\* The text of a run: every part followed by the delimiter.
RunText(parts) == IF parts = <<>> THEN <<>> ELSE Join(parts, <<SOH>>) \o <<SOH>>

InitInbound ==
    /\ registered = Callbacks
    /\ twoSenders = FALSE
    /\ NewClient
    /\ \/ \E c \in Calls :
             /\ request \in Requests(c)
             /\ messageString = GetMessage(request, request.sequenceNumber)
       \/ \E parts \in PartRuns :
             /\ request = [variant |-> "received", parts |-> parts]
             /\ messageString = RunText(parts)
    /\ Unexamined
    /\ NoStream
    /\ NoCalls
    /\ NoWrite

\* The text ends with <SOH>10=ddd<SOH>.
EndsWithChecksum(text) ==
    /\ Len(text) > 7
    /\ SubSeq(text, Len(text) - 7, Len(text) - 4) = <<SOH, 49, 48, EqualsSign>>
    /\ \A i \in (Len(text) - 3)..(Len(text) - 1) : text[i] \in 48..57
    /\ text[Len(text)] = SOH

\* One digit of the checksum of a text that passes validation is replaced
\* by another digit.
AlterChecksumDigit ==
    /\ request.variant \in KnownVariants
    /\ tamper = "none"
    /\ validation = "none"
    /\ ~response.ok
    /\ EndsWithChecksum(messageString)
    /\ ValidateMessage(messageString, SOH) = "nil"
    /\ \E i \in (Len(messageString) - 3)..(Len(messageString) - 1) :
          \E digit \in (48..57) \ {messageString[i]} :
             messageString' = [messageString EXCEPT ![i] = digit]
    /\ tamper' = "checksum"
    /\ UNCHANGED <<registered, twoSenders, outv, framer, locks, request, validation, response,
                   fields, chans, net, sendv, result, readv, cbSpawned, seqlog, inlog>>

\* The part is the field of one of the given tags.
IsFieldOf(part, tags) ==
    \E tag \in tags :
        /\ Len(part) > Len(Itoa(tag))
        /\ SubSeq(part, 1, Len(Itoa(tag)) + 1) = Itoa(tag) \o <<EqualsSign>>

\* The fields of some of the tags 8, 9, 35 and 10 are taken out of the text.
RemoveFields ==
    /\ request.variant \in KnownVariants
    /\ tamper = "none"
    /\ validation = "none"
    /\ ~response.ok
    /\ \E tags \in (SUBSET {8, 9, 35, 10}) \ {{}} :
          messageString' =
              Join(SelectSeq(Split(messageString, SOH),
                             LAMBDA part : ~IsFieldOf(part, tags)), <<SOH>>)
    /\ tamper' = "removed"
    /\ UNCHANGED <<registered, twoSenders, outv, framer, locks, request, validation, response,
                   fields, chans, net, sendv, result, readv, cbSpawned, seqlog, inlog>>

NextInbound ==
    \/ AlterChecksumDigit
    \/ RemoveFields
    \/ Validate
    \/ Decode

SpecInbound == InitInbound /\ [][NextInbound]_vars

(***************************************************************************)
(* The framing loop on bytes (client.go 216-238 with findMessageEnd,       *)
(* 243-257).  The counterparty writes well-formed messages one after the   *)
(* other; Read hands them over in chunks of any size, and after every      *)
(* chunk the loop cuts complete messages off the front of the buffer.      *)
(***************************************************************************)

\* findMessageEnd (243-257): the number of bytes up to and including the
\* first delimiter after the first "10=" that has one, -1 when there is none.
\* The outer loop stops four bytes before the end of the buffer.
findMessageEnd(buffer) ==
    LET ends(i) == {j \in (i + 3)..Len(buffer) : buffer[j] = SOH}
        found == {i \in 1..(Len(buffer) - 4) :
                     /\ SubSeq(buffer, i, i + 2) = <<49, 48, EqualsSign>>
                     /\ ends(i) # {}}
    IN IF found = {} THEN -1
       ELSE LET i == CHOOSE k \in found : \A l \in found : k <= l
            IN CHOOSE j \in ends(i) : \A l \in ends(i) : j <= l

\* The loop of 219-238 leaving after its first message (a mutant of
\* FrameAll).
FrameOnce(buffer) ==
    LET messageEnd == findMessageEnd(buffer) IN
    IF messageEnd = -1 THEN [messages |-> <<>>, rest |-> buffer]
    ELSE [messages |-> <<SubSeq(buffer, 1, messageEnd)>>,
          rest |-> SubSeq(buffer, messageEnd + 1, Len(buffer))]

\* The loop of 219-238 keeping the buffer from one byte after the end of
\* the message (a mutant of FrameAll).
RECURSIVE FrameAllSkipping(_)
FrameAllSkipping(buffer) ==
    LET messageEnd == findMessageEnd(buffer) IN
    IF messageEnd = -1 THEN [messages |-> <<>>, rest |-> buffer]
    ELSE LET later == FrameAllSkipping(SubSeq(buffer, messageEnd + 2, Len(buffer)))
         IN [messages |-> <<SubSeq(buffer, 1, messageEnd)>> \o later.messages,
             rest |-> later.rest]

\* The loop of 219-238: messages cut off the front while findMessageEnd
\* finds an end, and what stays in the buffer.
RECURSIVE FrameAll(_)
FrameAll(buffer) ==
    LET messageEnd == findMessageEnd(buffer) IN
    IF messageEnd = -1 THEN [messages |-> <<>>, rest |-> buffer]
    ELSE LET later == FrameAll(SubSeq(buffer, messageEnd + 1, Len(buffer)))
         IN [messages |-> <<SubSeq(buffer, 1, messageEnd)>> \o later.messages,
             rest |-> later.rest]

\* A body followed by its checksum field, as the builder's getTrailer makes it.
WithTrailer(body) ==
    body \o Field(10, ZeroPad(calculateChecksum(body), 3)) \o <<SOH>>

\* Well-formed messages a counterparty sends: a heartbeat (35=0), and a
\* position report (35=AP) with its PosReqID (710=7).
StreamedMessages ==
    {WithTrailer(Field(35, <<48>>) \o <<SOH>>),
     WithTrailer(Field(35, <<65, 80>>) \o <<SOH>> \o Field(710, <<55>>) \o <<SOH>>)}

\* Other bytes a counterparty may send: a checksum field with an empty
\* value, a field without its delimiter, and a lone delimiter.
StreamedJunk ==
    {<<49, 48, EqualsSign, SOH>>, <<57, EqualsSign, 49, 48>>, <<SOH>>}

InitFramer ==
    /\ registered = Callbacks
    /\ twoSenders = FALSE
    /\ NewClient
    /\ NoRequest
    /\ NoStream
    /\ NoCalls
    /\ NoWrite

\* The counterparty writes one more message, or other bytes.
PeerWrites ==
    /\ Len(sent) < MaxStreamed
    /\ \E m \in StreamedMessages \cup StreamedJunk :
          /\ sent' = Append(sent, m)
          /\ stream' = stream \o m
    /\ UNCHANGED <<registered, twoSenders, outv, codec, locks, byteBuffer, extracted,
                   fields, chans, net, sendv, result, readv, cbSpawned, seqlog, inlog>>

\* c.conn.Read returns n bytes (209), they are appended to the buffer (216)
\* and the framing loop runs (219-238).
ReadChunk ==
    /\ stream # <<>>
    /\ \E n \in 1..Len(stream) :
          LET loop == FrameAll(byteBuffer \o SubSeq(stream, 1, n)) IN
          /\ stream' = SubSeq(stream, n + 1, Len(stream))
          /\ byteBuffer' = loop.rest
          /\ extracted' = extracted \o loop.messages
    /\ UNCHANGED <<registered, twoSenders, outv, codec, locks, sent,
                   fields, chans, net, sendv, result, readv, cbSpawned, seqlog, inlog>>

NextFramer ==
    \/ PeerWrites
    \/ ReadChunk

SpecFramer == InitFramer /\ [][NextFramer]_vars

(***************************************************************************)
(* The lock c.mu followed step by step.  Every operation takes the lock    *)
(* (Lock in Connect 74, Disconnect 120, handleDisconnection 260; RLock in  *)
(* IsConnected and Send 149), runs its body and releases the lock by its   *)
(* deferred Unlock.  The lifecycle callbacks are started with a go         *)
(* statement (112-114, 135-137, 265-267); the goroutine of a callback      *)
(* calls one operation of the same client, when it likes, and returns.     *)
(***************************************************************************)
Operations == {"Connect", "Disconnect", "IsConnected", "Send"}
WriteLocked == {"Connect", "Disconnect", "handleDisconnection"}

GoroutineKind(g) ==
    IF g = 0 THEN "main"
    ELSE CASE g % 3 = 1 -> "onConnected"
           [] g % 3 = 2 -> "reader"
           [] g % 3 = 0 -> "onDisconnected"

\* The callback run by the goroutine that called the operation, before that
\* goroutine goes on (a mutant of Go).
GoInline(places, g, target) == [places EXCEPT ![g] = "ready"]

\* go c.onX(...): goroutine target starts, goroutine g goes on.
Go(places, g, target) == [places EXCEPT ![target] = "ready"]

\* if c.onX != nil { go c.onX(...) }, the callback being run by target.
GoIfSet(places, g, k, target) ==
    IF k \in registered THEN Go(places, g, target) ELSE places

InitLock ==
    /\ registered \in {{}, Callbacks}
    /\ twoSenders = FALSE
    /\ NewClient
    /\ NoRequest
    /\ NoStream
    /\ NoCalls
    /\ NoWrite

\* A goroutine calls an operation: the main goroutine any of them, a
\* callback's goroutine one of them, once.
Call(g) ==
    /\ gpc[g] = "ready"
    /\ \/ g = 0
       \/ GoroutineKind(g) \in {"onConnected", "onDisconnected"} /\ gop[g] = "none"
    /\ calls < MaxCalls
    /\ calls' = calls + 1
    /\ \E op \in Operations : gop' = [gop EXCEPT ![g] = op]
    /\ gpc' = [gpc EXCEPT ![g] = "lock"]
    /\ UNCHANGED <<registered, twoSenders, outv, codec, framer, mu, fields, chans, net,
                   sendv, result, readv, cbSpawned, seqlog, inlog>>

\* The callback's goroutine returns from the callback.
CallbackReturns(g) ==
    /\ gpc[g] = "ready"
    /\ GoroutineKind(g) \in {"onConnected", "onDisconnected"}
    /\ gpc' = [gpc EXCEPT ![g] = "returned"]
    /\ UNCHANGED <<registered, twoSenders, outv, codec, framer, mu, gop, calls, fields,
                   chans, net, sendv, result, readv, cbSpawned, seqlog, inlog>>

\* The reader's Read fails (209-210) and, the error reported, it calls
\* handleDisconnection (212).
ReadFails(g) ==
    /\ gpc[g] = "ready"
    /\ GoroutineKind(g) = "reader"
    /\ Len(errorChan) < ErrorChanCap
    /\ errorChan' = Append(errorChan, "read error")
    /\ gop' = [gop EXCEPT ![g] = "handleDisconnection"]
    /\ gpc' = [gpc EXCEPT ![g] = "lock"]
    /\ UNCHANGED <<registered, twoSenders, outv, codec, framer, mu, calls, fields,
                   messageChan, net, sendv, result, readv, cbSpawned, seqlog, inlog>>

\* c.mu.Lock() or c.mu.RLock() returns.
Acquire(g) ==
    /\ gpc[g] = "lock"
    /\ mu.writer = NoHolder
    /\ IF gop[g] \in WriteLocked
       THEN /\ mu.readers = {}
            /\ mu' = [mu EXCEPT !.writer = g]
       ELSE mu' = [mu EXCEPT !.readers = @ \cup {g}]
    /\ gpc' = [gpc EXCEPT ![g] = "body"]
    /\ UNCHANGED <<registered, twoSenders, outv, codec, framer, gop, calls, fields, chans,
                   net, sendv, result, readv, cbSpawned, seqlog, inlog>>

\* Connect between Lock and the deferred Unlock (77-116).
ConnectLocked(g) ==
    IF isConnected
    THEN /\ result' = "AlreadyConnected"
         /\ gpc' = [gpc EXCEPT ![g] = "unlock"]
         /\ UNCHANGED <<fields, sockState, cbSpawned>>
    ELSE \/ /\ result' = "DialFailed"
            /\ gpc' = [gpc EXCEPT ![g] = "unlock"]
            /\ UNCHANGED <<fields, sockState, cbSpawned>>
         \/ /\ NextSocket \in Sockets
            /\ conn' = NextSocket
            /\ sockState' = [sockState EXCEPT ![NextSocket] = "open"]
            /\ isConnected' = TRUE
            /\ messageSequenceNum' = 0
            /\ cbSpawned' = Spawn("onConnected")
            /\ gpc' = GoIfSet([gpc EXCEPT ![g] = "unlock", ![3 * NextSocket - 1] = "ready"],
                              g, "onConnected", 3 * NextSocket - 2)
            /\ result' = "ok"
            /\ UNCHANGED ctxDone

\* Disconnect between Lock and the deferred Unlock (123-139).
DisconnectLocked(g) ==
    /\ result' = "ok"
    /\ IF ~isConnected
       THEN /\ gpc' = [gpc EXCEPT ![g] = "unlock"]
            /\ UNCHANGED <<fields, sockState, cbSpawned>>
       ELSE /\ ctxDone' = TRUE
            /\ sockState' = IF conn # NoConn
                            THEN [sockState EXCEPT ![conn] = "closed"]
                            ELSE sockState
            /\ isConnected' = FALSE
            /\ cbSpawned' = Spawn("onDisconnected")
            /\ gpc' = GoIfSet([gpc EXCEPT ![g] = "unlock"], g, "onDisconnected", 3 * conn)
            /\ UNCHANGED <<conn, messageSequenceNum>>

\* handleDisconnection between Lock and the deferred Unlock (263-269).
handleDisconnectionLocked(g) ==
    /\ IF isConnected
       THEN /\ isConnected' = FALSE
            /\ cbSpawned' = Spawn("onDisconnected")
            /\ gpc' = GoIfSet([gpc EXCEPT ![g] = "unlock"], g, "onDisconnected", 3 * conn)
       ELSE /\ gpc' = [gpc EXCEPT ![g] = "unlock"]
            /\ UNCHANGED <<isConnected, cbSpawned>>
    /\ UNCHANGED <<conn, messageSequenceNum, ctxDone, sockState, result>>

\* Send between RLock and the deferred RUnlock (152-191), with a message of
\* a known type.
SendLocked(g) ==
    /\ IF ~isConnected
       THEN /\ result' = "NotConnected"
            /\ UNCHANGED messageSequenceNum
       ELSE /\ messageSequenceNum' = messageSequenceNum + 1
            /\ \E ok \in WriteOutcomes(conn) :
                  result' = IF ok THEN "ok" ELSE "WriteFailed"
    /\ gpc' = [gpc EXCEPT ![g] = "unlock"]
    /\ UNCHANGED <<conn, isConnected, ctxDone, sockState, cbSpawned>>

\* IsConnected between RLock and the deferred RUnlock.
IsConnectedLocked(g) ==
    /\ result' = IF isConnected THEN "true" ELSE "false"
    /\ gpc' = [gpc EXCEPT ![g] = "unlock"]
    /\ UNCHANGED <<fields, sockState, cbSpawned>>

\* The body of the operation the goroutine called, the lock held.
Body(g) ==
    /\ gpc[g] = "body"
    /\ CASE gop[g] = "Connect" -> ConnectLocked(g)
         [] gop[g] = "Disconnect" -> DisconnectLocked(g)
         [] gop[g] = "handleDisconnection" -> handleDisconnectionLocked(g)
         [] gop[g] = "Send" -> SendLocked(g)
         [] gop[g] = "IsConnected" -> IsConnectedLocked(g)
    /\ UNCHANGED <<registered, twoSenders, outv, codec, framer, mu, gop, calls, chans,
                   peerClosed, inbound, nInbound, sendv, readv, seqlog, inlog>>

\* The deferred Unlock or RUnlock, and the return to the caller.
Release(g) ==
    /\ gpc[g] = "unlock"
    /\ mu' = IF gop[g] \in WriteLocked
             THEN [mu EXCEPT !.writer = NoHolder]
             ELSE [mu EXCEPT !.readers = @ \ {g}]
    /\ gpc' = [gpc EXCEPT ![g] = IF GoroutineKind(g) = "reader" THEN "returned" ELSE "ready"]
    /\ UNCHANGED <<registered, twoSenders, outv, codec, framer, gop, calls, fields, chans,
                   net, sendv, result, readv, cbSpawned, seqlog, inlog>>

\* The steps of a goroutine inside an operation it has called.
Operation(g) ==
    \/ Acquire(g)
    \/ Body(g)
    \/ Release(g)

NextLock ==
    \/ \E g \in Goroutines : Call(g)
    \/ \E g \in Goroutines : CallbackReturns(g)
    \/ \E g \in Goroutines : ReadFails(g)
    \/ \E g \in Goroutines : Operation(g)

SpecLock == InitLock /\ [][NextLock]_vars

\* A goroutine inside an operation goes on when it can; when a callback
\* calls an operation or returns, and whether a read fails, is left open.
FairSpecLock == SpecLock /\ \A g \in Goroutines : WF_vars(Operation(g))

(***************************************************************************)
(* Claims.                                                                 *)
(***************************************************************************)

\* C1: with a single sending goroutine, the messages written since the
\* counter was last reset to 0 (by a successful Connect or by
\* ChangeMessageSequenceNumber(0)), with no failed Send in between, carry
\* MsgSeqNum 1, 2, ..., N in that order.
C1_SequenceNumbers ==
    (~twoSenders /\ base = 0 /\ clean) => wire = [i \in 1..Len(wire) |-> i]

C1_Witness ==
    ~twoSenders /\ base = 0 /\ clean /\ isConnected /\ Len(wire) >= 2

\* C2: the increment of the sequence counter is atomic: no two Sends are
\* built with the same MsgSeqNum, and once the Sends that passed the
\* connected check have returned the counter equals its value at the last
\* reset plus their number.
C2_AtomicIncrement ==
    LET inFlight == {t \in Senders : pc[t] = "write"} IN
    /\ LockFree => messageSequenceNum = base + passed
    /\ \A i, j \in 1..Len(wire) : i # j => wire[i] # wire[j]
    /\ \A t \in inFlight : \A i \in 1..Len(wire) : wire[i] # built[t]
    /\ \A t, u \in inFlight : t # u => built[t] # built[u]

\* C3: the messages reach the socket in strictly increasing MsgSeqNum
\* order.
C3_WireOrder ==
    \A i, j \in 1..Len(wire) : i < j => wire[i] < wire[j]

\* C4: a Send rejected for its unsupported argument writes nothing and
\* leaves the sequence counter at the value it had when Send was called
\* (single sending goroutine).
C4_RejectedSendKeepsCounter ==
    [][\A t \in Senders :
          (~twoSenders /\ pc[t] = "build" /\ pc'[t] = "idle"
              /\ result' = "Unsupported")
          => (messageSequenceNum' = tmp[t] /\ wire' = wire)]_vars

\* C5: a Send on a client that is not connected returns the not-connected
\* error in its first step and changes nothing else: no socket is written,
\* the sequence counter and the error channel stay as they are.
C5_SendNotConnected ==
    [][\A t \in Senders : \A message \in SendInputs :
          (~isConnected /\ SendBegin(t, message))
          => /\ result' = "NotConnected"
             /\ pc'[t] = "idle"
             /\ UNCHANGED <<fields, chans, net, sendv, readv, cbSpawned,
                            seqlog, inlog>>]_vars

\* The Send came after a read failure disconnected the client.
C5_Witness ==
    /\ result = "NotConnected"
    /\ ~isConnected
    /\ conn # NoConn
    /\ ~ctxDone
    /\ rpc[conn] = "done"

\* C6: Connect on a connected client returns the already-connected error
\* and changes nothing: socket, counter, flag, readers and callbacks stay as
\* they are.
C6_ConnectWhenConnected ==
    [][(isConnected /\ Connect("main"))
          => /\ result' = "AlreadyConnected"
             /\ UNCHANGED <<config, fields, chans, net, sendv, readv,
                            cbSpawned, seqlog, inlog>>]_vars

C6_Witness ==
    /\ result = "AlreadyConnected"
    /\ isConnected
    /\ rpc[conn] = "read"

\* C7: whenever the client is connected (after any successful Connect, the
\* first or a later one) its send counter starts at 0 and a reader task is
\* running.
C7_ReaderRunsAfterConnect ==
    isConnected =>
        /\ messageSequenceNum = 0
        /\ \E r \in Sockets : rpc[r] \notin {"idle", "done"}

\* C8: with a message callback registered, every message the reader has
\* decoded was handed to the callback and was pushed onto the message
\* channel.
C8_DualDelivery ==
    "onMessage" \in registered =>
        /\ decoded \subseteq onMessageCalls
        /\ decoded \subseteq offered

\* C9: when the stream of the socket in use is closed while the client is
\* connected, eventually the client is disconnected.
C9_ReadFailureDisconnects ==
    \A s \in Sockets :
        (isConnected /\ conn = s /\ s \in peerClosed) ~> ~isConnected

\* C10: a Send that fails in the socket write leaves the client
\* disconnected, with an error on the error channel and the disconnected
\* callback started.
C10_WriteFailureDisconnects ==
    [][\A t \in Senders :
          (pc[t] = "write" /\ pc'[t] = "idle" /\ result' = "WriteFailed")
          => /\ ~isConnected'
             /\ Len(errorChan') = Len(errorChan) + 1
             /\ cbSpawned'["onDisconnected"] = cbSpawned["onDisconnected"] + 1]_vars

\* C11: with nobody draining the channels, the reader never stays for ever
\* at a channel write: from the framing loop's delivery and from the report
\* of a read error it always goes on to its next step.
C11_ReaderNeverBlocks ==
    \A r \in Sockets :
        (rpc[r] \in {"frame", "report"}) ~> (rpc[r] \notin {"frame", "report"})

\* C12: with the message channel full, a round of the framing loop leaves
\* the channel as it is, takes the decoded message out of the buffer and
\* stays in the framing loop.
C12_FullChannelDropsAndContinues ==
    [][\A r \in Sockets :
          (Len(messageChan) = MessageChanCap /\ messageBuffer[r] # <<>>
              /\ ReaderFrame(r))
          => /\ messageChan' = messageChan
             /\ messageBuffer'[r] = Tail(messageBuffer[r])
             /\ rpc'[r] = "frame"]_vars

\* C12, amended: as above, except that the reader returns instead of
\* staying in the framing loop when the context has been cancelled.
C12_FullChannelDrops ==
    [][\A r \in Sockets :
          (Len(messageChan) = MessageChanCap /\ messageBuffer[r] # <<>>
              /\ ReaderFrame(r))
          => /\ messageChan' = messageChan
             /\ messageBuffer'[r] = Tail(messageBuffer[r])
             /\ rpc'[r] = IF ctxDone THEN "done" ELSE "frame"]_vars

\* A message was dropped on the full channel and the reader is framing the
\* next one.
C12_Witness ==
    /\ Len(messageChan) = MessageChanCap
    /\ ~ctxDone
    /\ \E r \in Sockets :
          /\ rpc[r] = "frame"
          /\ messageBuffer[r] # <<>>
          /\ \E m \in decoded \ offered : m < Head(messageBuffer[r])

\* a is a subsequence of b: the elements of a occur in b in the same order.
RECURSIVE IsSubsequence(_, _)
IsSubsequence(a, b) ==
    IF a = <<>> THEN TRUE
    ELSE IF b = <<>> THEN FALSE
    ELSE IF Head(a) = Head(b) THEN IsSubsequence(Tail(a), Tail(b))
    ELSE IsSubsequence(a, Tail(b))

\* C13: the messages the consumer has received, followed by those still
\* queued on the message channel, are a subsequence of the messages the
\* framing loop extracted, and none occurs twice.
C13_FifoDelivery ==
    LET delivered == received \o messageChan IN
    /\ IsSubsequence(delivered, framed)
    /\ \A i, j \in 1..Len(delivered) : i # j => delivered[i] # delivered[j]

\* The consumer has received two messages.
C13_Witness ==
    Len(received) >= 2

\* C14: Disconnect on a connected client returns success and leaves the
\* client disconnected, the socket in use closed and the context cancelled,
\* with one more goroutine started for the disconnected callback; from then
\* on every Send returns the not-connected error, and only a successful
\* Connect makes the client connected again.
C14_DisconnectWhenConnected ==
    [][/\ (isConnected /\ Disconnect("main"))
             => /\ result' = "ok"
                /\ ~isConnected'
                /\ ctxDone'
                /\ sockState'[conn] = "closed"
                /\ cbSpawned'["onDisconnected"] = cbSpawned["onDisconnected"] + 1
       /\ \A t \in Senders : \A message \in SendInputs :
             (~isConnected /\ SendBegin(t, message)) => result' = "NotConnected"
       /\ (~isConnected /\ isConnected')
             => (Connect("main") /\ result' = "ok")]_vars

\* A Send failed after Disconnect closed the socket of a connected client.
C14_Witness ==
    /\ result = "NotConnected"
    /\ ~isConnected
    /\ ctxDone
    /\ conn # NoConn
    /\ sockState[conn] = "closed"
    /\ cbSpawned["onDisconnected"] >= 1

\* C15: Disconnect on a client that is not connected returns success and
\* changes nothing else: no callback goroutine is started, no error is
\* queued, socket, context and readers stay as they are.
C15_DisconnectIdempotent ==
    [][(~isConnected /\ Disconnect("main"))
          => /\ result' = "ok"
             /\ UNCHANGED <<config, fields, chans, net, sendv, readv,
                            cbSpawned, seqlog, inlog>>]_vars

\* Disconnect has returned success on a client that was never connected
\* (after a failed dial or on a fresh client).
C15_Witness ==
    /\ result = "ok"
    /\ conn = NoConn
    /\ ~isConnected
    /\ ~ctxDone
    /\ cbSpawned["onDisconnected"] = 0

C17_HeartbeatReply ==
    \A m \in 1..MaxInbound :
        (isConnected /\ conn = 1 /\ m \in decoded /\ InboundMsgType(m) = "1")
            ~> (wire # <<>> \/ ~isConnected)

\* C18: at most one socket opened by the client is open (not closed by
\* the client).
C18_OneSocket ==
    Cardinality({s \in Sockets : sockState[s] = "open"}) <= 1

\* The positions of the delimiter in a text, and the first and second of
\* them: the ends of the BeginString and BodyLength fields.
DelimiterPositions(text) == {i \in 1..Len(text) : text[i] = SOH}
FirstDelimiter(text) ==
    CHOOSE i \in DelimiterPositions(text) : \A j \in DelimiterPositions(text) : i <= j
SecondDelimiter(text) ==
    CHOOSE i \in DelimiterPositions(text) \ {FirstDelimiter(text)} :
        \A j \in DelimiterPositions(text) \ {FirstDelimiter(text)} : i <= j

\* The number a text of decimal digits denotes.
RECURSIVE DecimalValue(_)
DecimalValue(digits) ==
    IF digits = <<>> THEN 0
    ELSE 10 * DecimalValue(SubSeq(digits, 1, Len(digits) - 1)) + (digits[Len(digits)] - 48)

\* C19: in a built message the value of BodyLength (the second field,
\* 9=<value>) is the number of bytes after the delimiter that ends the
\* BodyLength field up to and including the delimiter before the trailing
\* 10=ddd<SOH>.
C19_BodyLength ==
    messageString # <<>> =>
        LET valueText == SubSeq(messageString, FirstDelimiter(messageString) + 3,
                                SecondDelimiter(messageString) - 1)
            counted == (Len(messageString) - 7) - SecondDelimiter(messageString)
        IN DecimalValue(valueText) = counted

\* C20: a built message ends with <SOH>10=ddd<SOH> where ddd are three
\* decimal digits whose value is the sum modulo 256 of all the bytes before
\* the 10, the preceding delimiter included.
C20_Checksum ==
    messageString # <<>> =>
        LET n == Len(messageString) IN
        /\ n > 7
        /\ SubSeq(messageString, n - 7, n - 4) = <<SOH, 49, 48, EqualsSign>>
        /\ \A i \in (n - 3)..(n - 1) : messageString[i] \in 48..57
        /\ messageString[n] = SOH
        /\ DecimalValue(SubSeq(messageString, n - 3, n - 1))
              = SumBytes(SubSeq(messageString, 1, n - 7)) % 256

\* An order with a price was built and its checksum has a leading zero.
C20_Witness ==
    /\ messageString # <<>>
    /\ request.variant = "OrderMsg"
    /\ request.Price # 0
    /\ messageString[Len(messageString) - 3] = 48

\* The texts the caller assigned to the string fields of a message value.
AssignedTexts(rm) ==
    CASE rm.variant \in {"Heartbeat", "TestRequest"} -> {rm.TestReqID}
      [] rm.variant = "OrderMsg" -> {rm.ClOrdID, rm.Symbol, rm.Side, rm.OrdType}
      [] rm.variant = "OrderCancelRequest" -> {rm.OrigClOrdID, rm.OrderID, rm.ClOrdID}
      [] rm.variant = "MarketDataRequest" ->
            {rm.MDReqID, rm.SubscriptionRequestType, rm.MDEntryType, rm.Symbol}
      [] rm.variant = "SecurityListRequest" ->
            {rm.SecurityReqID, rm.SecurityListRequestType, rm.Symbol}
      [] rm.variant = "RequestForPositions" -> {rm.PosReqID, rm.PosMaintRptID}
      [] OTHER -> {}

\* No value of the message holds a delimiter byte.
DelimiterFree(rm) ==
    \A text \in AssignedTexts(rm) : \A i \in 1..Len(text) : text[i] # SOH

\* C21: validating the text built from a message value whose values hold
\* no delimiter byte returns no error.
C21_BuiltMessageValidates ==
    (messageString # <<>> /\ validation # "none" /\ DelimiterFree(request))
        => validation = "nil"

\* An order with its optional price was built and validated.
C21_Witness ==
    /\ messageString # <<>>
    /\ validation = "nil"
    /\ request.variant = "OrderMsg"
    /\ request.Price # 0
    /\ request.sequenceNumber = 10

\* The header fields and the body fields a message value is to be built
\* with, as pairs of tag and value (BodyLength and CheckSum excepted).
HeaderWritten(rm) ==
    <<<<8, rm.config.BeginString>>, <<35, messageType(rm.variant)>>,
      <<49, rm.config.SenderCompID>>, <<56, rm.config.TargetCompID>>,
      <<57, rm.config.TargetSubID>>, <<50, rm.config.SenderSubID>>,
      <<34, Itoa(rm.sequenceNumber)>>, <<52, rm.now>>>>

BodyWritten(rm) ==
    CASE rm.variant = "LogonRequest" ->
            <<<<98, Itoa(rm.EncryptionScheme)>>, <<108, Itoa(rm.config.HeartBeat)>>>>
            \o (IF rm.ResetSeqNum THEN <<<<141, <<89>>>>>> ELSE <<>>)
            \o <<<<553, rm.config.Username>>, <<554, rm.config.Password>>>>
      [] rm.variant = "Heartbeat" ->
            IF rm.TestReqID = <<>> THEN <<>> ELSE <<<<112, rm.TestReqID>>>>
      [] rm.variant = "TestRequest" -> <<<<112, rm.TestReqID>>>>
      [] rm.variant = "LogoutRequest" -> <<>>
      [] rm.variant = "OrderMsg" ->
            <<<<11, rm.ClOrdID>>, <<55, rm.Symbol>>, <<54, rm.Side>>,
              <<60, SubSeq(rm.now, 1, 17)>>, <<38, FormatFixed(rm.OrderQty, 2)>>,
              <<40, rm.OrdType>>>>
            \o (IF rm.Price # 0 THEN <<<<44, FormatFixed(rm.Price, 5)>>>> ELSE <<>>)
      [] rm.variant = "OrderCancelRequest" ->
            <<<<41, rm.OrigClOrdID>>>>
            \o (IF rm.OrderID # <<>> THEN <<<<37, rm.OrderID>>>> ELSE <<>>)
            \o <<<<11, rm.ClOrdID>>>>
      [] rm.variant = "MarketDataRequest" ->
            <<<<262, rm.MDReqID>>, <<263, rm.SubscriptionRequestType>>,
              <<264, Itoa(rm.MarketDepth)>>, <<267, Itoa(rm.NoMDEntryTypes)>>,
              <<269, rm.MDEntryType>>, <<146, Itoa(rm.NoRelatedSym)>>,
              <<55, rm.Symbol>>>>
      [] rm.variant = "SecurityListRequest" ->
            <<<<320, rm.SecurityReqID>>, <<559, rm.SecurityListRequestType>>>>
            \o (IF rm.Symbol # <<>> THEN <<<<55, rm.Symbol>>>> ELSE <<>>)
      [] rm.variant = "RequestForPositions" ->
            <<<<710, rm.PosReqID>>>>
            \o (IF rm.PosMaintRptID # <<>> THEN <<<<721, rm.PosMaintRptID>>>> ELSE <<>>)

\* Decoding the built text gives every written field under its tag with
\* its value, and the variant's type code as message type.
RoundTrip ==
    LET written == HeaderWritten(request) \o BodyWritten(request) IN
    /\ \A i \in 1..Len(written) :
          /\ written[i][1] \in DOMAIN response.fields
          /\ \E j \in 1..Len(response.fields[written[i][1]]) :
                response.fields[written[i][1]][j] = written[i][2]
    /\ GetMessageType(response) = messageType(request.variant)

NthDelimiter(text, n) ==
    CHOOSE i \in DelimiterPositions(text) :
        Cardinality({j \in DelimiterPositions(text) : j <= i}) = n

\* The body of a built text lies between the delimiter that ends the ninth
\* header field (8, 9, 35, 49, 56, 57, 50, 34, 52) and the trailing
\* 10=ddd<SOH>; the last byte of that stretch is the delimiter that ends
\* the last body field.
BodyFirst(text) == NthDelimiter(text, 9) + 1
BodyLast(text) == Len(text) - 7

\* C23: the body of a built message holds no field written as a tag, '='
\* and an empty value.
C23_NoEmptyBodyField ==
    messageString # <<>> =>
        \A i \in BodyFirst(messageString)..(BodyLast(messageString) - 1) :
            ~(messageString[i] = EqualsSign /\ messageString[i + 1] = SOH)

\* The body of a built text holds a field with this tag.
BodyHasTag(text, tag) ==
    LET marker == <<SOH>> \o Itoa(tag) \o <<EqualsSign>> IN
    \E i \in (BodyFirst(text) - 1)..(BodyLast(text) - Len(marker)) :
        SubSeq(text, i, i + Len(marker) - 1) = marker

\* OrdType 2 (limit) and 4 (stop limit) carry a limit price.
LimitLike(ordType) == ordType \in {<<50>>, <<52>>}

\* C24: a built order holds the Price field (44) exactly when its OrdType
\* is limit-like and its price is not zero.
C24_PriceOnlyOnLimitOrders ==
    (messageString # <<>> /\ request.variant = "OrderMsg") =>
        (BodyHasTag(messageString, 44)
            <=> (LimitLike(request.OrdType) /\ request.Price # 0))

\* The positions of the text, in increasing order, where a field of the tag
\* starts: at the start of the text or right after a delimiter.
FieldStarts(text, tag) ==
    SelectSeq([i \in 1..Len(text) |-> i],
              LAMBDA i :
                  /\ i = 1 \/ text[i - 1] = SOH
                  /\ i + Len(Itoa(tag)) <= Len(text)
                  /\ SubSeq(text, i, i + Len(Itoa(tag))) = Itoa(tag) \o <<EqualsSign>>)

\* The bytes from a position up to the next delimiter or the end of the text.
ValueFrom(text, from) ==
    LET ends == {i \in from..Len(text) : text[i] = SOH}
        end == IF ends = {} THEN Len(text) + 1
               ELSE CHOOSE i \in ends : \A j \in ends : i <= j
    IN SubSeq(text, from, end - 1)

\* The values the text carries for a tag, in the order they occur.
ValuesOf(text, tag) ==
    LET starts == FieldStarts(text, tag) IN
    [k \in 1..Len(starts) |-> ValueFrom(text, starts[k] + Len(Itoa(tag)) + 1)]

HasField(text, tag) == FieldStarts(text, tag) # <<>>

MandatoryTags == <<8, 9, 35, 10>>

MissingError(tag) ==
    CASE tag = 8 -> "missing BeginString field (8)"
      [] tag = 9 -> "missing BodyLength field (9)"
      [] tag = 35 -> "missing MsgType field (35)"
      [] tag = 10 -> "missing Checksum field (10)"

ChecksumVerdicts ==
    {"nil",
     "checksum validation failed: checksum field not found",
     "checksum validation failed: invalid checksum format",
     "checksum validation failed: checksum mismatch"}

\* C25: ValidateMessage rejects the empty message as empty; a message that
\* lacks some of the fields 8, 9, 35 and 10 is rejected with the error that
\* names the first missing one in that order; only a message carrying all
\* four gets a verdict on its checksum.
C25_NamesFirstMissingField ==
    validation # "none" =>
        IF messageString = <<>> THEN validation = "message is empty"
        ELSE LET missing == {k \in 1..4 : ~HasField(messageString, MandatoryTags[k])} IN
             IF missing # {}
             THEN validation =
                      MissingError(MandatoryTags[CHOOSE k \in missing :
                                                     \A j \in missing : k <= j])
             ELSE validation \in ChecksumVerdicts

\* A message without the fields 9 and 10 was rejected for the field 9.
C25_Witness ==
    /\ tamper = "removed"
    /\ HasField(messageString, 8)
    /\ ~HasField(messageString, 9)
    /\ HasField(messageString, 35)
    /\ ~HasField(messageString, 10)
    /\ validation = "missing BodyLength field (9)"

\* C26: a message that passed validation, with one digit of its trailing
\* checksum replaced by a different digit, fails with a checksum mismatch.
C26_AlteredChecksumFails ==
    (tamper = "checksum" /\ validation # "none") =>
        validation = "checksum validation failed: checksum mismatch"

\* The hundreds digit of the checksum of an order message was replaced and
\* the message was rejected.
C26_Witness ==
    /\ tamper = "checksum"
    /\ request.variant = "OrderMsg"
    /\ messageString[Len(messageString) - 3] #
           ZeroPad(calculateChecksum(SubSeq(messageString, 1, Len(messageString) - 7)), 3)[1]
    /\ validation = "checksum validation failed: checksum mismatch"

ExposedTags == {8, 35, 58, 269, 270, 999}

\* C27: a decoded message exposes, for every tag, all the values the text
\* carries for it in their order when there are two or more, the single
\* value when there is one, and nil when there is none.
C27_FieldMultiplicity ==
    response.ok =>
        \A tag \in ExposedTags :
            LET values == ValuesOf(messageString, tag) IN
            GetFieldValue(response, tag) =
                IF values = <<>> THEN [kind |-> "nil"]
                ELSE IF Len(values) = 1 THEN [kind |-> "string", value |-> values[1]]
                ELSE [kind |-> "list", value |-> values]

\* A text with the tag 269 three times was decoded, next to a tag that
\* occurs once or never.
C27_Witness ==
    /\ response.ok
    /\ request.variant = "received"
    /\ GetFieldValue(response, 269) =
           [kind |-> "list", value |-> <<<<48>>, <<49>>, <<48>>>>]
    /\ GetFieldValue(response, 270) = [kind |-> "nil"]

\* a is a prefix of b.
IsPrefix(a, b) == Len(a) <= Len(b) /\ SubSeq(b, 1, Len(a)) = a

\* C28: of a stream of well-formed messages the framing loop extracts
\* exactly the messages written, in order: what it has extracted is always
\* a prefix of what was written, and once every byte has been read it has
\* extracted them all and nothing is left in the buffer.
C28_FramesWhatWasSent ==
    (\A k \in 1..Len(sent) : sent[k] \in StreamedMessages) =>
        /\ IsPrefix(extracted, sent)
        /\ stream = <<>> => (extracted = sent /\ byteBuffer = <<>>)

\* C29: the read-error handling of the reader of an earlier connection,
\* running while a later connection's socket is the client's, leaves the
\* connected flag as it is and starts no disconnected callback.
C29_EarlierReaderLeavesLaterConnection ==
    [][\A r \in Sockets :
          (handleDisconnection(r) /\ conn # NoConn /\ conn > r)
          => (isConnected' = isConnected /\ cbSpawned' = cbSpawned)]_vars

\* C30: once the context is cancelled by Disconnect, every reader that is
\* running eventually terminates.
C30_ReaderTerminates ==
    \A r \in Sockets :
        (ctxDone /\ rpc[r] \notin {"idle", "done"}) ~> (rpc[r] \in {"idle", "done"})

\* The successful Connects so far: every one opened one more socket.
SuccessfulConnects == Cardinality({s \in Sockets : sockState[s] # "unopened"})

\* C31: the disconnected callback has been started at most once for every
\* successful Connect, and not yet for a connection that is still marked
\* connected, whatever the order of Disconnect and the readers' handling of
\* read failures.
C31_DisconnectedCallbackOnce ==
    cbSpawned["onDisconnected"] + (IF isConnected THEN 1 ELSE 0) <= SuccessfulConnects

\* Disconnect closed the first connection, its reader then reported the
\* read failure and ran handleDisconnection, and one callback was started.
C31_Witness ==
    /\ registered = Callbacks
    /\ conn = 1
    /\ sockState[1] = "closed"
    /\ rsock[1] = 1
    /\ rpc[1] = "done"
    /\ errorChan = <<"read error">>
    /\ cbSpawned["onDisconnected"] = 1

\* C32: a Send that has passed the connected check holds the lock until it
\* returns, so until then the client stays connected and its socket has not
\* been closed by Disconnect; the write of a Send never goes to a socket that
\* Disconnect has closed.
C32_SendExcludesDisconnect ==
    \A t \in Senders :
        pc[t] # "idle" => (isConnected /\ conn # NoConn /\ sockState[conn] = "open")

\* A Send wrote its message, Disconnect then closed the socket, and the
\* next Send was refused as not connected.
C32_Witness ==
    /\ Len(wire) >= 1
    /\ conn = 1
    /\ sockState[1] = "closed"
    /\ ~isConnected
    /\ result = "NotConnected"

\* C33: every operation a goroutine has called returns: the main
\* goroutine's Connect and Disconnect whether or not the callbacks they
\* started have got anywhere, and the operations a callback calls on the
\* same client.
C33_CallsReturn ==
    \A g \in Goroutines :
        (gpc[g] \in {"lock", "body", "unlock"}) ~> (gpc[g] \in {"ready", "returned"})

\* Connect returned to the main goroutine; the connected callback it
\* started then called Disconnect on the same client, which closed the
\* socket, started the disconnected callback and returned.
C33_Witness ==
    /\ gop[0] = "Connect"
    /\ gpc[0] = "ready"
    /\ gop[1] = "Disconnect"
    /\ gpc[1] = "ready"
    /\ sockState[1] = "closed"
    /\ gpc[3] = "ready"
    /\ mu = [writer |-> NoHolder, readers |-> {}]

\* The texts of a sequence one after the other.
RECURSIVE Flatten(_)
Flatten(texts) == IF texts = <<>> THEN <<>> ELSE Head(texts) \o Flatten(Tail(texts))

\* The bytes read from the socket so far: those written, less those still
\* unread.
BytesRead == SubSeq(Flatten(sent), 1, Len(Flatten(sent)) - Len(stream))

\* C34: the messages extracted so far, in order, followed by the
\* accumulation buffer, are the bytes read so far.
C34_FramerConservesBytes ==
    Flatten(extracted) \o byteBuffer = BytesRead

\* Two pieces were read in three or more chunks, a message was extracted
\* and bytes are left in the buffer.
C34_Witness ==
    /\ Len(sent) = 2
    /\ stream = <<>>
    /\ extracted # <<>>
    /\ byteBuffer # <<>>

\* C35: the messages extracted and the buffer left over depend on the
\* bytes read only, not on the chunks they were read in: they are what the
\* framing loop makes of all these bytes handed over in one read.
C35_ChunkingIndependent ==
    FrameAll(BytesRead) = [messages |-> extracted, rest |-> byteBuffer]

\* Two messages were extracted after reads that ended inside the first
\* message and inside the second.
C35_Witness ==
    /\ Len(sent) = 2
    /\ sent[1] \in StreamedMessages
    /\ sent[2] \in StreamedMessages
    /\ Len(extracted) >= 2
    /\ 0 < Len(stream)
    /\ Len(stream) < 7

\* C36: the first message written after ChangeMessageSequenceNumber(n), n
\* not 0, carries MsgSeqNum n + 1, and only ChangeMessageSequenceNumber and
\* Connect ever make the sequence counter smaller.
C36_ResetThenIncreasing ==
    [][/\ (wire' # <<>> /\ base' # 0) => wire'[1] = base' + 1
       /\ messageSequenceNum' < messageSequenceNum
              => \/ Connect("main")
                 \/ \E n \in SeqInputs : ChangeMessageSequenceNumber("main", n)]_vars

\* C37: the reader puts a read error on the error channel only for a
\* stream the counterparty closed, never for a socket that only the
\* client's own Disconnect closed.
C37_CleanDisconnectReportsNothing ==
    [][\A r \in Sockets : ReaderReport(r) => rsock[r] \in peerClosed]_vars

\* The part is a field tag=value free of the default delimiter byte.
IsPlainField(part) ==
    /\ \E i \in 1..Len(part) : part[i] = EqualsSign
    /\ \A i \in 1..Len(part) : part[i] # SOH \/ clientDelimiter = <<SOH>>

\* C38: the bytes Send writes for a message whose values hold no delimiter
\* are fields separated by the client's delimiter and nothing else: cut at
\* that delimiter they are fields, the last of them the checksum field
\* 10=ddd, followed by one delimiter that ends the bytes.
C38_ConfiguredDelimiterOnly ==
    (wireBytes # <<>> /\ DelimiterFree(request)) =>
        LET parts == Split(wireBytes, clientDelimiter[1])
            n == Len(parts)
        IN /\ n >= 2
           /\ parts[n] = <<>>
           /\ Len(parts[n - 1]) = 6
           /\ SubSeq(parts[n - 1], 1, 3) = <<49, 48, EqualsSign>>
           /\ \A k \in 1..(n - 1) : IsPlainField(parts[k])

\* The positions where a segment of the text starts: the start of the text
\* and the position after every delimiter.
SegmentStarts(text, delimiter) ==
    {1} \cup {i + 1 : i \in {j \in 1..Len(text) : text[j] = delimiter}}

\* The last position of the segment that starts at a position.
SegmentEnd(text, delimiter, from) ==
    LET ends == {i \in from..Len(text) : text[i] = delimiter}
    IN IF ends = {} THEN Len(text)
       ELSE (CHOOSE i \in ends : \A j \in ends : i <= j) - 1

\* The text is an integer as written: an optional sign and decimal digits.
IsIntegerText(text) ==
    LET digits == IF text # <<>> /\ text[1] \in {43, 45} THEN Tail(text) ELSE text
    IN digits # <<>> /\ \A i \in 1..Len(digits) : digits[i] \in 48..57

\* The integer such a text denotes.
IntegerOf(text) ==
    IF text[1] = 45 THEN 0 - DecimalValue(Tail(text))
    ELSE IF text[1] = 43 THEN DecimalValue(Tail(text))
    ELSE DecimalValue(text)

\* The positions of the '=' signs of the segment that starts at a position.
EqualsIn(text, delimiter, from) ==
    {e \in from..SegmentEnd(text, delimiter, from) : text[e] = EqualsSign}

\* The position of the first '=' of that segment.
FirstEquals(text, delimiter, from) ==
    CHOOSE e \in EqualsIn(text, delimiter, from) :
        \A f \in EqualsIn(text, delimiter, from) : e <= f

\* The segment starting at the position has an '=' with an integer to the
\* left of the first one.
Contributes(text, delimiter, from) ==
    /\ EqualsIn(text, delimiter, from) # {}
    /\ IsIntegerText(SubSeq(text, from, FirstEquals(text, delimiter, from) - 1))

\* The mapping holds one value for each contributing segment of the text
\* and nothing else: what follows the segment's first '=', under the
\* integer to the left of it.
HoldsTheSegments(mapping, text, delimiter) ==
    LET kept == {i \in SegmentStarts(text, delimiter) : Contributes(text, delimiter, i)}
        exposed == UNION {{<<tag, j>> : j \in 1..Len(mapping[tag])} : tag \in DOMAIN mapping}
    IN /\ Cardinality(exposed) = Cardinality(kept)
       /\ \A i \in kept :
             LET e == FirstEquals(text, delimiter, i)
                 tag == IntegerOf(SubSeq(text, i, e - 1))
             IN /\ tag \in DOMAIN mapping
                /\ \E j \in 1..Len(mapping[tag]) :
                      mapping[tag][j] = SubSeq(text, e + 1, SegmentEnd(text, delimiter, i))

\* C39: decoding returns a mapping for every text and delimiter; the
\* segments that are empty, hold no '=' or have no integer to the left of
\* their first '=' add nothing, and each other segment adds one value:
\* what follows its first '=', under the integer to the left of it.
C39_DecodeIsTotal ==
    response.ok =>
        /\ HoldsTheSegments(response.fields, messageString, SOH)
        /\ \A d \in Delimiters :
              /\ NewResponseMessage(messageString, d[1]).ok
              /\ HoldsTheSegments(NewResponseMessage(messageString, d[1]).fields,
                                  messageString, d[1])

\* A text of a part without '=', an empty part and the field 58=a=b was
\* decoded to the one value a=b under tag 58.
C39_Witness ==
    /\ response.ok
    /\ request.variant = "received"
    /\ messageString = <<97, 98, SOH, SOH, 53, 56, EqualsSign, 97, EqualsSign, 98, SOH>>
    /\ DOMAIN response.fields = {58}
    /\ response.fields[58] = <<<<97, EqualsSign, 98>>>>
====
